---------------------------- MODULE Spec2Model ----------------------------
(***************************************************************************)
(* A model of sqliteparser: the scanner (lexer.py), the recursive-descent  *)
(* parser (parser.py) and the rendering of the syntax tree (ast.py,        *)
(* utils.py).                                                              *)
(*                                                                         *)
(* Text is a sequence of one-character strings, so that the scanner works  *)
(* character by character as the code does.  A Python object is a record   *)
(* with a "node" field naming its class; None is the record None.  A Python*)
(* str or bool stored in an Optional or Union slot is boxed (PyStr,        *)
(* PyBool) so that it can be compared with None.  A raised exception is    *)
(* kept in the "exc" field of the lexer record: every operation on a       *)
(* lexer whose exc is set leaves it as it is, which is how the exception   *)
(* propagates to the caller of parse / parse_column.                       *)
(***************************************************************************)
EXTENDS Integers, Sequences, FiniteSets, TLC

None == [node |-> "None"]
PyStr(t) == [node |-> "str", value |-> t]
PyBool(b) == [node |-> "bool", value |-> b]

\* ------------------------------------------------------------ calls
\* A call of a method of the Lexer or of the Parser: Invoke(method, args) is
\* the method applied to its arguments.  For the match_* methods it is the
\* `wrapped` of the debuggable decorator with debug off.  Under each
\* method's own name stands the call of it, as the code writes it; its
\* body is Lexer_<method> or Parser_<method>.
RECURSIVE Invoke(_, _)

advance(L, expecting) == Invoke("Lexer.advance", <<L, expecting>>)
check(L, types_and_values) == Invoke("Lexer.check", <<L, types_and_values>>)
push(L, token) == Invoke("Lexer.push", <<L, token>>)
_advance(L) == Invoke("Lexer._advance", <<L>>)
read_symbol(L) == Invoke("Lexer.read_symbol", <<L>>)
read_integer(L) == Invoke("Lexer.read_integer", <<L>>)
read_blob(L) == Invoke("Lexer.read_blob", <<L>>)
read_generic_string(L, token_type, delimiter, allow_doubling) == Invoke("Lexer.read_generic_string", <<L, token_type, delimiter, allow_doubling>>)
match_statement(L) == Invoke("Parser.match_statement", <<L>>)
match_create_statement(L) == Invoke("Parser.match_create_statement", <<L>>)
match_create_table_statement(L, if_not_exists, temporary, name) == Invoke("Parser.match_create_table_statement", <<L, if_not_exists, temporary, name>>)
match_create_index_statement(L, if_not_exists, unique, name) == Invoke("Parser.match_create_index_statement", <<L, if_not_exists, unique, name>>)
match_create_virtual_table_statement(L, if_not_exists, name) == Invoke("Parser.match_create_virtual_table_statement", <<L, if_not_exists, name>>)
match_create_trigger_statement(L, if_not_exists, name) == Invoke("Parser.match_create_trigger_statement", <<L, if_not_exists, name>>)
match_create_view_statement(L, if_not_exists, name) == Invoke("Parser.match_create_view_statement", <<L, if_not_exists, name>>)
match_select_statement(L) == Invoke("Parser.match_select_statement", <<L>>)
match_column_or_constraint(L) == Invoke("Parser.match_column_or_constraint", <<L>>)
match_column(L) == Invoke("Parser.match_column", <<L>>)
match_column_type(L) == Invoke("Parser.match_column_type", <<L>>)
match_foreign_key_constraint(L) == Invoke("Parser.match_foreign_key_constraint", <<L>>)
match_foreign_key_clause(L, columns) == Invoke("Parser.match_foreign_key_clause", <<L, columns>>)
match_not_null_constraint(L) == Invoke("Parser.match_not_null_constraint", <<L>>)
match_primary_key_constraint(L) == Invoke("Parser.match_primary_key_constraint", <<L>>)
match_primary_key_table_constraint(L) == Invoke("Parser.match_primary_key_table_constraint", <<L>>)
match_check_constraint(L) == Invoke("Parser.match_check_constraint", <<L>>)
match_collate_constraint(L) == Invoke("Parser.match_collate_constraint", <<L>>)
match_unique_constraint(L) == Invoke("Parser.match_unique_constraint", <<L>>)
match_generated_column_constraint(L) == Invoke("Parser.match_generated_column_constraint", <<L>>)
match_default_clause(L) == Invoke("Parser.match_default_clause", <<L>>)
match_on_conflict_clause(L) == Invoke("Parser.match_on_conflict_clause", <<L>>)
match_expression(L, precedence, verbatim, start_index) == Invoke("Parser.match_expression", <<L, precedence, verbatim, start_index>>)
match_infix(L, left, precedence) == Invoke("Parser.match_infix", <<L, left, precedence>>)
match_prefix(L) == Invoke("Parser.match_prefix", <<L>>)

\* ---------------------------------------------------------------- text

RECURSIVE Str(_)
\* The TLA+ string spelled by the text t.
Str(t) == IF t = <<>> THEN "" ELSE Head(t) \o Str(Tail(t))

RECURSIVE Cat(_)
\* The concatenation of a sequence of texts.
Cat(ts) == IF ts = <<>> THEN <<>> ELSE Head(ts) \o Cat(Tail(ts))

RECURSIVE Join(_, _)
\* sep.join(ts)
Join(sep, ts) ==
    IF ts = <<>> THEN <<>>
    ELSE IF Len(ts) = 1 THEN ts[1]
    ELSE ts[1] \o sep \o Join(sep, Tail(ts))

Min(a, b) == IF a < b THEN a ELSE b

LowerCase == <<"a","b","c","d","e","f","g","h","i","j","k","l","m",
               "n","o","p","q","r","s","t","u","v","w","x","y","z">>
UpperCase == <<"A","B","C","D","E","F","G","H","I","J","K","L","M",
               "N","O","P","Q","R","S","T","U","V","W","X","Y","Z">>
Digits == <<"0","1","2","3","4","5","6","7","8","9">>

\* The backtick character (a string literal of the module cannot hold it):
\* one element of a text like any other character.
Backtick == "<backtick>"

Range(f) == {f[i] : i \in DOMAIN f}

isalpha(ch) == ch \in Range(LowerCase) \cup Range(UpperCase)
isdigit(ch) == ch \in Range(Digits)
isspace(ch) == ch \in {" ", "\n", "\t", "\r"}

\* str.upper() of one character
upper_char(ch) ==
    IF ch \in Range(LowerCase)
    THEN UpperCase[CHOOSE i \in DOMAIN LowerCase : LowerCase[i] = ch]
    ELSE ch

\* str.upper() of a text
upper(t) == [i \in DOMAIN t |-> upper_char(t[i])]

RECURSIVE int(_)
\* int(t) for a text of decimal digits
int(t) ==
    IF t = <<>> THEN 0
    ELSE 10 * int(SubSeq(t, 1, Len(t) - 1))
         + (CHOOSE d \in 0..9 : Digits[d + 1] = t[Len(t)])

RECURSIVE str_int(_)
\* str(n) for an integer n >= 0
str_int(n) ==
    IF n < 10 THEN <<Digits[n + 1]>>
    ELSE str_int(n \div 10) \o <<Digits[(n % 10) + 1]>>

\* --------------------------------------------------------------- lexer

SQL_KEYWORDS == {
    "ABORT", "ACTION", "ADD", "AFTER", "ALL", "ALTER", "ALWAYS", "ANALYZE", "AND", "AS",
    "ASC", "ATTACH", "AUTOINCREMENT", "BEFORE", "BEGIN", "BETWEEN", "BY", "CASCADE",
    "CASE", "CAST", "CHECK", "COLLATE", "COLUMN", "COMMIT", "CONFLICT", "CONSTRAINT",
    "CREATE", "CROSS", "CURRENT", "CURRENT_DATE", "CURRENT_TIME", "CURRENT_TIMESTAMP",
    "DATABASE", "DEFAULT", "DEFERRABLE", "DEFERRED", "DELETE", "DESC", "DETACH",
    "DISTINCT", "DO", "DROP", "EACH", "ELSE", "END", "ESCAPE", "EXCEPT", "EXCLUDE",
    "EXCLUSIVE", "EXISTS", "EXPLAIN", "FAIL", "FILTER", "FIRST", "FOLLOWING", "FOR",
    "FOREIGN", "FROM", "FULL", "GENERATED", "GLOB", "GROUP", "GROUPS", "HAVING", "IF",
    "IGNORE", "IMMEDIATE", "IN", "INDEX", "INDEXED", "INITIALLY", "INNER", "INSERT",
    "INSTEAD", "INTERSECT", "INTO", "IS", "ISNULL", "JOIN", "KEY", "LAST", "LEFT",
    "LIKE", "LIMIT", "MATCH", "MATERIALIZED", "NATURAL", "NO", "NOT", "NOTHING",
    "NOTNULL", "NULL", "NULLS", "OF", "OFFSET", "ON", "OR", "ORDER", "OTHERS", "OUTER",
    "OVER", "PARTITION", "PLAN", "PRAGMA", "PRECEDING", "PRIMARY", "QUERY", "RAISE",
    "RANGE", "RECURSIVE", "REFERENCES", "REGEXP", "REINDEX", "RELEASE", "RENAME",
    "REPLACE", "RESTRICT", "RETURNING", "RIGHT", "ROLLBACK", "ROW", "ROWS", "SAVEPOINT",
    "SELECT", "SET", "TABLE", "TEMP", "TEMPORARY", "THEN", "TIES", "TO", "TRANSACTION",
    "TRIGGER", "UNBOUNDED", "UNION", "UNIQUE", "UPDATE", "USING", "VACUUM", "VALUES",
    "VIEW", "VIRTUAL", "WHEN", "WHERE", "WINDOW", "WITH", "WITHOUT"
}

is_symbol_character(ch) == isalpha(ch) \/ isdigit(ch) \/ ch = "_"

Token(type, value, line, column, original_value) ==
    [type |-> type, value |-> value, line |-> line, column |-> column,
     original_value |-> original_value]

\* token.value == s, for a str s (a bytes value never equals a str)
ValueIs(token, s) == token.type # "BLOB" /\ Str(token.value) = s

\* The three kinds of item of a CheckTokenType list.
KW(s) == [m |-> "str", value |-> s]
TT(type) == [m |-> "type", type |-> type]
TV(type, s) == [m |-> "tuple", type |-> type, value |-> s]
\* An `expecting` argument that is not None.
Expecting(items) == [node |-> "list", items |-> items]

Failed(L) == L.exc # None
\* raise type(msg); an exception already propagating is kept.
Raise(L, type, msg) ==
    IF Failed(L) THEN L ELSE [L EXCEPT !.exc = [node |-> type, msg |-> msg]]

done(L) == L.index = Len(L.program)

prefix(L, length) ==
    SubSeq(L.program, L.index + 1, Min(L.index + length, Len(L.program)))

\* The character at the cursor as a string, "" at the end of the program.
c(L) == Str(prefix(L, 1))

peek(L) ==
    IF L.index + 1 >= Len(L.program) THEN "" ELSE L.program[L.index + 2]

next_character(L) ==
    IF c(L) = "\n"
    THEN [L EXCEPT !.line = @ + 1, !.column = 1, !.index = @ + 1]
    ELSE [L EXCEPT !.column = @ + 1, !.index = @ + 1]

RECURSIVE read_whitespace(_)
read_whitespace(L) ==
    IF ~done(L) /\ isspace(c(L)) THEN read_whitespace(next_character(L)) ELSE L

current(L) ==
    IF L.pushed_token # None THEN L.pushed_token ELSE L.current_token

Matches(token, item) ==
    IF item.m = "str" THEN token.type = "KEYWORD" /\ ValueIs(token, item.value)
    ELSE IF item.m = "tuple"
    THEN token.type = item.type /\ ValueIs(token, item.value)
    ELSE token.type = item.type

\* Lexer.check: the lexer, with the exception raised if the current token
\* matches no item (the token returned is current(L)).
Lexer_check(L, types_and_values) ==
    IF Failed(L) THEN L
    ELSE LET token == current(L) IN
         IF token = None
         THEN Raise(L, "SQLiteParserError", "premature end of input")
         ELSE IF token.type = "UNKNOWN"
         THEN Raise(L, "SQLiteParserError", "unknown token")
         ELSE IF \E i \in DOMAIN types_and_values :
                    Matches(token, types_and_values[i])
         THEN L
         ELSE Raise(L, "SQLiteParserError", "expected")

RECURSIVE skip_while(_, _)
\* while not self.done() and <class>(self.c()): self.next_character()
skip_while(L, digits_only) ==
    IF ~done(L) /\ (IF digits_only THEN isdigit(c(L))
                                  ELSE is_symbol_character(c(L)))
    THEN skip_while(next_character(L), digits_only)
    ELSE L

\* The read_* operators give [lx |-> the lexer after the scan, tok |-> the token].
Lexer_read_symbol(L) ==
    LET start == L.index
        start_column == L.column
        L1 == skip_while(L, FALSE)
        value == SubSeq(L.program, start + 1, L1.index)
    IN  IF Str(upper(value)) \in SQL_KEYWORDS
        THEN [lx |-> L1,
              tok |-> Token("KEYWORD", upper(value), L1.line, start_column,
                            PyStr(value))]
        ELSE [lx |-> L1,
              tok |-> Token("IDENTIFIER", value, L1.line, start_column, None)]

Lexer_read_integer(L) ==
    LET start == L.index
        start_column == L.column
        L1 == skip_while(L, TRUE)
        value == SubSeq(L.program, start + 1, L1.index)
    IN  [lx |-> L1, tok |-> Token("INTEGER", value, L1.line, start_column, None)]

HexDigits == <<"0","1","2","3","4","5","6","7","8","9",
               "a","b","c","d","e","f","A","B","C","D","E","F">>

\* hexval taking the place of the digit in string.hexdigits for its value:
\* right for 0-9 and a-f, six too many for A-F.
hexval_by_place(d) ==
    (CHOOSE k \in DOMAIN HexDigits : HexDigits[k] = d) - 1

\* int(d, base=16) of one hexadecimal digit
hexval(d) ==
    LET i == CHOOSE k \in DOMAIN HexDigits : HexDigits[k] = d
    IN  IF i <= 16 THEN i - 1 ELSE i - 7

RECURSIVE read_blob_loop(_, _)
\* The while loop of read_blob: [lx, characters].
read_blob_loop(L, characters) ==
    IF ~done(L) /\ c(L) # "'"
    THEN LET d1 == c(L)
             L1 == next_character(L)
         IN  IF done(L1)
             THEN [lx |-> Raise(L1, "SQLiteParserError", "unterminated blob literal"),
                   characters |-> characters]
             ELSE LET d2 == c(L1) IN
                  IF d1 \notin Range(HexDigits)
                  THEN [lx |-> Raise(L1, "SQLiteParserError", "invalid hex digit"),
                        characters |-> characters]
                  ELSE IF d2 \notin Range(HexDigits)
                  THEN [lx |-> Raise(L1, "SQLiteParserError", "invalid hex digit"),
                        characters |-> characters]
                  ELSE read_blob_loop(next_character(L1),
                           Append(characters, 16 * hexval(d1) + hexval(d2)))
    ELSE [lx |-> L, characters |-> characters]

Lexer_read_blob(L) ==
    LET start_column == L.column
        r == read_blob_loop(next_character(next_character(L)), <<>>)
    IN  IF Failed(r.lx) THEN [lx |-> r.lx, tok |-> None]
        ELSE IF done(r.lx)
        THEN [lx |-> Raise(r.lx, "SQLiteParserError", "unterminated blob literal"),
              tok |-> None]
        ELSE LET L1 == next_character(r.lx)
             IN  [lx |-> L1,
                  tok |-> Token("BLOB", r.characters, L1.line, start_column, None)]

RECURSIVE read_generic_string_loop_without_doubling(_, _, _, _)
\* read_generic_string_loop with the test for a doubled delimiter left out:
\* the first delimiter closes the literal.
read_generic_string_loop_without_doubling(L, delimiter, allow_doubling, characters) ==
    IF ~done(L) /\ c(L) # delimiter
    THEN read_generic_string_loop_without_doubling(next_character(L),
             delimiter, allow_doubling, Append(characters, c(L)))
    ELSE [lx |-> L, characters |-> characters]

RECURSIVE read_generic_string_loop(_, _, _, _)
\* The while loop of read_generic_string: [lx, characters].
read_generic_string_loop(L, delimiter, allow_doubling, characters) ==
    IF ~done(L)
    THEN IF c(L) = delimiter
         THEN IF allow_doubling /\ Str(prefix(L, 2)) = delimiter \o delimiter
              THEN read_generic_string_loop(next_character(next_character(L)),
                       delimiter, allow_doubling, Append(characters, delimiter))
              ELSE [lx |-> L, characters |-> characters]
         ELSE read_generic_string_loop(next_character(L), delimiter,
                  allow_doubling, Append(characters, c(L)))
    ELSE [lx |-> L, characters |-> characters]

\* read_generic_string with the test of done() after the loop left out: a
\* literal that the end of input cuts short is a token all the same.
Lexer_read_generic_string_unchecked_end(L, token_type, delimiter, allow_doubling) ==
    LET start_column == L.column
        r == read_generic_string_loop(next_character(L), delimiter,
                                      allow_doubling, <<>>)
        L1 == IF done(r.lx) THEN r.lx ELSE next_character(r.lx)
    IN  [lx |-> L1,
         tok |-> Token(token_type, r.characters, L1.line, start_column, None)]

Lexer_read_generic_string(L, token_type, delimiter, allow_doubling) ==
    LET start_column == L.column
        r == read_generic_string_loop(next_character(L), delimiter,
                                      allow_doubling, <<>>)
    IN  IF done(r.lx)
        THEN [lx |-> Raise(r.lx, "SQLiteParserError", "expected delimiter"),
              tok |-> None]
        ELSE LET L1 == next_character(r.lx)
             IN  [lx |-> L1,
                  tok |-> Token(token_type, r.characters, L1.line, start_column,
                                None)]

RECURSIVE next_characters(_, _)
\* for _ in range(length): self.next_character()
next_characters(L, length) ==
    IF length = 0 THEN L ELSE next_characters(next_character(L), length - 1)

multi_character_token(L, type, length) ==
    LET value == SubSeq(L.program, L.index + 1,
                        Min(L.index + length, Len(L.program)))
    IN  [lx |-> next_characters(L, length),
         tok |-> Token(type, value, L.line, L.column, None)]

character_token(L, type) == multi_character_token(L, type, 1)

Lexer__advance(L) ==
    LET ch == c(L) IN
    IF upper_char(ch) = "X" /\ peek(L) = "'" THEN read_blob(L)
    ELSE IF isalpha(ch) THEN read_symbol(L)
    ELSE IF isdigit(ch) THEN read_integer(L)
    ELSE IF ch = "'" THEN read_generic_string(L, "STRING", "'", TRUE)
    ELSE IF ch = "\"" THEN read_generic_string(L, "IDENTIFIER", "\"", TRUE)
    ELSE IF ch = Backtick THEN read_generic_string(L, "IDENTIFIER", Backtick, TRUE)
    ELSE IF ch = "[" THEN read_generic_string(L, "IDENTIFIER", "]", FALSE)
    ELSE IF ch = "(" THEN character_token(L, "LEFT_PARENTHESIS")
    ELSE IF ch = ")" THEN character_token(L, "RIGHT_PARENTHESIS")
    ELSE IF ch = "," THEN character_token(L, "COMMA")
    ELSE IF ch = ";" THEN character_token(L, "SEMICOLON")
    ELSE IF ch = "." THEN character_token(L, "DOT")
    ELSE IF Str(prefix(L, 2)) = "!=" THEN multi_character_token(L, "NOT_EQ", 2)
    ELSE IF Str(prefix(L, 2)) = ">="
    THEN multi_character_token(L, "GREATER_THAN_OR_EQ", 2)
    ELSE IF Str(prefix(L, 2)) = "<="
    THEN multi_character_token(L, "LESS_THAN_OR_EQ", 2)
    ELSE IF Str(prefix(L, 2)) = "||" THEN multi_character_token(L, "CONCAT", 2)
    ELSE IF ch = ">" THEN character_token(L, "GREATER_THAN")
    ELSE IF ch = "<" THEN character_token(L, "GREATER_THAN")
    ELSE character_token(L, "UNKNOWN")

\* Lexer.advance without line 117: at the end of the input the token that
\* was current stays current and is returned again.
Lexer_advance_without_sentinel(L, expecting) ==
    IF Failed(L) THEN L
    ELSE IF L.pushed_token # None
    THEN [L EXCEPT !.current_token = L.pushed_token, !.pushed_token = None]
    ELSE LET L1 == read_whitespace(L) IN
         IF done(L1)
         THEN IF expecting # None
              THEN Raise(L1, "SQLiteParserError", "premature end of input")
              ELSE L1
         ELSE LET r == _advance(L1) IN
              IF Failed(r.lx) THEN r.lx
              ELSE LET L2 == [r.lx EXCEPT !.current_token = r.tok]
                       L3 == IF expecting # None THEN check(L2, expecting.items)
                             ELSE L2
                   IN  IF Failed(L3) THEN L3 ELSE read_whitespace(L3)

\* Lexer.advance: the lexer after the call; the token returned is its
\* current_token.
Lexer_advance(L, expecting) ==
    IF Failed(L) THEN L
    ELSE IF L.pushed_token # None
    THEN [L EXCEPT !.current_token = L.pushed_token, !.pushed_token = None]
    ELSE LET L1 == read_whitespace(L) IN
         IF done(L1)
         THEN IF expecting # None
              THEN Raise(L1, "SQLiteParserError", "premature end of input")
              ELSE [L1 EXCEPT !.current_token =
                                  Token("EOF", <<>>, L1.line, L1.column, None)]
         ELSE LET r == _advance(L1) IN
              IF Failed(r.lx) THEN r.lx
              ELSE LET L2 == [r.lx EXCEPT !.current_token = r.tok]
                       L3 == IF expecting # None THEN check(L2, expecting.items)
                             ELSE L2
                   IN  IF Failed(L3) THEN L3 ELSE read_whitespace(L3)

\* Lexer.push without lines 171-172: a second token replaces the first.
Lexer_push_overwriting(L, token) ==
    IF Failed(L) THEN L ELSE [L EXCEPT !.pushed_token = token]

Lexer_push(L, token) ==
    IF Failed(L) THEN L
    ELSE IF L.pushed_token # None
    THEN Raise(L, "SQLiteParserError", "token already pushed")
    ELSE [L EXCEPT !.pushed_token = token]

\* Lexer.__init__.  The record also carries the Parser's verbatim attribute
\* (False until Parser.__init__ sets it), so that one record is the whole
\* state the match_* methods work on.
Lexer(prog) ==
    LET self == [program |-> prog, index |-> 0, line |-> 1, column |-> 1,
                 pushed_token |-> None, current_token |-> None, exc |-> None,
                 verbatim |-> FALSE]
    IN  advance(self, None)

\* Parser.__init__
Parser(L, verbatim) == [L EXCEPT !.verbatim = verbatim]

\* -------------------------------------------------------------- parser

\* PRECEDENCE with the call parenthesis ranked with the bitwise operators,
\* below the arithmetic ones.
PRECEDENCE_call_below_arithmetic ==
    ("OR" :> 0) @@ ("AND" :> 1) @@ ("=" :> 2) @@ ("==" :> 2) @@ ("!=" :> 2)
    @@ ("<>" :> 2) @@ ("IS" :> 2) @@ ("IN" :> 2) @@ ("LIKE" :> 2)
    @@ ("GLOB" :> 2) @@ ("MATCH" :> 2) @@ ("REGEXP" :> 2) @@ ("<" :> 3)
    @@ ("<=" :> 3) @@ (">" :> 3) @@ (">=" :> 3) @@ ("<<" :> 4) @@ (">>" :> 4)
    @@ ("&" :> 4) @@ ("|" :> 4) @@ ("+" :> 5) @@ ("-" :> 5) @@ ("*" :> 6)
    @@ ("/" :> 6) @@ ("%" :> 6) @@ ("||" :> 7) @@ ("(" :> 4)

\* From https://sqlite.org/lang_expr.html
PRECEDENCE ==
    ("OR" :> 0) @@ ("AND" :> 1) @@ ("=" :> 2) @@ ("==" :> 2) @@ ("!=" :> 2)
    @@ ("<>" :> 2) @@ ("IS" :> 2) @@ ("IN" :> 2) @@ ("LIKE" :> 2)
    @@ ("GLOB" :> 2) @@ ("MATCH" :> 2) @@ ("REGEXP" :> 2) @@ ("<" :> 3)
    @@ ("<=" :> 3) @@ (">" :> 3) @@ (">=" :> 3) @@ ("<<" :> 4) @@ (">>" :> 4)
    @@ ("&" :> 4) @@ ("|" :> 4) @@ ("+" :> 5) @@ ("-" :> 5) @@ ("*" :> 6)
    @@ ("/" :> 6) @@ ("%" :> 6) @@ ("||" :> 7) @@ ("(" :> 8)

\* What a match_* method gives: the lexer after it and the value returned.
Ret(L, val) == [lx |-> L, val |-> val]

Enum(class, name) == [node |-> class, name |-> name]

\* str.rstrip()
RECURSIVE rstrip(_)
rstrip(t) ==
    IF t # <<>> /\ isspace(t[Len(t)]) THEN rstrip(SubSeq(t, 1, Len(t) - 1))
    ELSE t

\* program[start:stop]
Slice(t, start, stop) == SubSeq(t, start + 1, Min(stop, Len(t)))

RECURSIVE match_expression_verbatim_loop(_, _, _)
RECURSIVE match_expression_loop(_, _, _)
RECURSIVE match_expression_list(_, _)
RECURSIVE match_identifier_list(_, _)

\* The while loop of match_identifier_list.
match_identifier_list(L, identifiers) ==
    IF Failed(L) THEN Ret(L, identifiers)
    ELSE LET token == current(L) IN
         IF token.type = "IDENTIFIER"
         THEN match_identifier_list(advance(L, None),
                                    Append(identifiers, token.value))
         ELSE IF token.type = "COMMA"
         THEN match_identifier_list(advance(L, None), identifiers)
         ELSE Ret(L, identifiers)

\* The while loop of match_expression_list.
match_expression_list(L, expressions) ==
    IF Failed(L) THEN Ret(L, expressions)
    ELSE LET r == match_expression(L, -1, FALSE, 0)
             L1 == check(r.lx, <<TT("COMMA"), TT("RIGHT_PARENTHESIS")>>)
             token == current(L1)
             L2 == advance(L1, None)
         IN  IF Failed(L2) THEN Ret(L2, expressions)
             ELSE IF token.type = "RIGHT_PARENTHESIS"
             THEN Ret(L2, Append(expressions, r.val))
             ELSE match_expression_list(L2, Append(expressions, r.val))

Parser_match_prefix(L) ==
    LET token == current(L) IN
    IF Failed(L) THEN Ret(L, None)
    ELSE IF token.type = "IDENTIFIER"
    THEN Ret(advance(L, None), [node |-> "Identifier", value |-> token.value])
    ELSE IF token.type = "LEFT_PARENTHESIS"
    THEN LET r == match_expression_list(advance(L, None), <<>>) IN
         IF Failed(r.lx) THEN Ret(r.lx, None)
         ELSE IF Len(r.val) = 1 THEN Ret(r.lx, r.val[1])
         ELSE Ret(r.lx, [node |-> "ExpressionList", values |-> r.val])
    ELSE IF token.type = "STRING"
    THEN Ret(advance(L, None), [node |-> "String", value |-> token.value])
    ELSE IF token.type = "BLOB"
    THEN Ret(advance(L, None), [node |-> "Blob", value |-> token.value])
    ELSE IF token.type = "INTEGER"
    THEN Ret(advance(L, None), [node |-> "Integer", value |-> int(token.value)])
    ELSE Ret(Raise(L, "SQLiteParserError", "unexpected token in expression"), None)

Parser_match_infix(L, left, precedence) ==
    LET operator_token == current(L)
        r == match_expression(advance(L, None), precedence, FALSE, 0)
    IN  Ret(r.lx, [node |-> "Infix", operator |-> operator_token.value,
                   left |-> left, right |-> r.val])

Call(function, arguments, star, distinct) ==
    [node |-> "Call", function |-> function, arguments |-> arguments,
     star |-> star, distinct |-> distinct]

\* The `while True` loop of match_expression after match_prefix.
match_expression_loop(L, precedence, left) ==
    IF Failed(L) THEN Ret(L, left)
    ELSE
    LET token == current(L)
        known == token.type # "BLOB" /\ Str(token.value) \in DOMAIN PRECEDENCE
        p == PRECEDENCE[Str(token.value)]
    IN  IF token = None THEN Ret(L, left)
        ELSE IF ~known \/ precedence >= p THEN Ret(L, left)
        ELSE IF ValueIs(token, "(")
        THEN IF left.node # "Identifier"
             THEN Ret(Raise(L, "SQLiteParserError",
                            "function must be an identifier"), left)
             ELSE LET L1 == advance(L, None)
                      next_token == L1.current_token
                  IN  IF Failed(L1) THEN Ret(L1, left)
                      ELSE IF ValueIs(next_token, "*")
                      THEN LET L2 == advance(L1,
                                       Expecting(<<TT("RIGHT_PARENTHESIS")>>))
                           IN  match_expression_loop(advance(L2, None), precedence,
                                   Call(left, <<>>, TRUE, FALSE))
                      ELSE IF ValueIs(next_token, "DISTINCT")
                      THEN LET r == match_expression_list(advance(L1, None), <<>>)
                           IN  match_expression_loop(r.lx, precedence,
                                   Call(left, r.val, FALSE, TRUE))
                      ELSE LET r == match_expression_list(L1, <<>>)
                           IN  match_expression_loop(r.lx, precedence,
                                   Call(left, r.val, FALSE, FALSE))
        ELSE LET r == match_infix(L, left, p)
             IN  match_expression_loop(r.lx, precedence, r.val)

\* The `while True` loop of the verbatim branch of match_expression; gives
\* the lexer and prev_index.
match_expression_verbatim_loop(L, level, prev_index) ==
    IF Failed(L) THEN Ret(L, prev_index)
    ELSE IF L.current_token.type = "RIGHT_PARENTHESIS" /\ level = 0
    THEN Ret(L, prev_index)
    ELSE IF L.current_token.type = "RIGHT_PARENTHESIS" /\ level - 1 < 0
    THEN Ret(Raise(L, "SQLiteParserError", "unbalanced parenthesis"), prev_index)
    ELSE LET level1 ==
                 IF L.current_token.type = "RIGHT_PARENTHESIS" THEN level - 1
                 ELSE IF L.current_token.type = "LEFT_PARENTHESIS" THEN level + 1
                 ELSE level
             prev_index1 == L.index
             L1 == advance(L, None)
         IN  IF Failed(L1) THEN Ret(L1, prev_index1)
             ELSE IF L1.current_token.type = "SEMICOLON" THEN Ret(L1, prev_index1)
             ELSE IF done(L1)
             THEN IF level1 = 0 THEN Ret(L1, prev_index1)
                  ELSE Ret(Raise(L1, "SQLiteParserError", "unbalanced parenthesis"),
                           prev_index1)
             ELSE match_expression_verbatim_loop(L1, level1, prev_index1)

Parser_match_expression(L, precedence, verbatim, start_index) ==
    IF Failed(L) THEN Ret(L, None)
    ELSE IF verbatim
    THEN LET r == match_expression_verbatim_loop(L, 0, L.index)
         IN  Ret(r.lx, [node |-> "String",
                        value |-> rstrip(Slice(L.program, start_index, r.val))])
    ELSE LET r == match_prefix(L)
         IN  match_expression_loop(r.lx, precedence, r.val)

Parser_match_on_conflict_clause(L) ==
    LET L1 == check(L, <<KW("ON")>>)
        L2 == advance(L1, Expecting(<<KW("CONFLICT")>>))
        L3 == advance(L2, Expecting(<<KW("ROLLBACK"), KW("ABORT"), KW("FAIL"),
                                      KW("IGNORE"), KW("REPLACE")>>))
        strategy == L3.current_token
        L4 == advance(L3, None)
    IN  IF Failed(L4) THEN Ret(L4, None)
        ELSE IF ValueIs(strategy, "ROLLBACK")
        THEN Ret(L4, Enum("OnConflict", "ROLLBACK"))
        ELSE IF ValueIs(strategy, "ABORT")
        THEN Ret(L4, Enum("OnConflict", "ABORT"))
        ELSE IF ValueIs(strategy, "FAIL")
        THEN Ret(L4, Enum("OnConflict", "FAIL"))
        ELSE IF ValueIs(strategy, "IGNORE")
        THEN Ret(L4, Enum("OnConflict", "IGNORE"))
        ELSE IF ValueIs(strategy, "REPLACE")
        THEN Ret(L4, Enum("OnConflict", "REPLACE"))
        ELSE Ret(Raise(L4, "SQLiteParserImpossibleError", "strategy"), None)

Parser_match_not_null_constraint(L) ==
    LET L1 == check(L, <<KW("NOT")>>)
        L2 == advance(L1, Expecting(<<KW("NULL")>>))
        L3 == advance(L2, None)
        token == L3.current_token
    IN  IF Failed(L3) THEN Ret(L3, None)
        ELSE IF token # None /\ token.type = "KEYWORD" /\ ValueIs(token, "ON")
        THEN LET r == match_on_conflict_clause(L3)
             IN  Ret(r.lx, [node |-> "NotNullConstraint", on_conflict |-> r.val])
        ELSE Ret(L3, [node |-> "NotNullConstraint", on_conflict |-> None])

\* PrimaryKeyConstraint made without its autoincrement argument, as in the
\* returns of lines 496, 509 and 518: the default, False, is what it gets.
PrimaryKeyConstraint_without_autoincrement(ascending, on_conflict, autoincrement) ==
    [node |-> "PrimaryKeyConstraint", ascending |-> ascending,
     on_conflict |-> on_conflict, autoincrement |-> FALSE]

PrimaryKeyConstraint(ascending, on_conflict, autoincrement) ==
    [node |-> "PrimaryKeyConstraint", ascending |-> ascending,
     on_conflict |-> on_conflict, autoincrement |-> autoincrement]

Parser_match_primary_key_constraint(L) ==
    LET \* lines 517-530, r being [lx, val |-> on_conflict]
        autoincrement(r, ascending) ==
            IF Failed(r.lx) THEN Ret(r.lx, None)
            ELSE IF current(r.lx).type # "KEYWORD"
            THEN Ret(r.lx, PrimaryKeyConstraint(ascending, r.val, FALSE))
            ELSE IF ValueIs(current(r.lx), "AUTOINCREMENT")
            THEN Ret(advance(r.lx, None),
                     PrimaryKeyConstraint(ascending, r.val, TRUE))
            ELSE Ret(r.lx, PrimaryKeyConstraint(ascending, r.val, FALSE))
        \* lines 508-515, the local `token` being the current token of L4
        on_conflict(L4, ascending) ==
            IF Failed(L4) THEN Ret(L4, None)
            ELSE IF L4.current_token.type # "KEYWORD"
            THEN Ret(L4, PrimaryKeyConstraint(ascending, None, FALSE))
            ELSE IF ValueIs(L4.current_token, "ON")
            THEN autoincrement(match_on_conflict_clause(L4), ascending)
            ELSE autoincrement(Ret(L4, None), ascending)
        \* lines 495-506: ASC | DESC
        order(L3) ==
            IF Failed(L3) THEN Ret(L3, None)
            ELSE IF L3.current_token = None \/ L3.current_token.type # "KEYWORD"
            THEN Ret(L3, PrimaryKeyConstraint(None, None, FALSE))
            ELSE IF ValueIs(L3.current_token, "ASC")
            THEN on_conflict(advance(L3, None), PyBool(TRUE))
            ELSE IF ValueIs(L3.current_token, "DESC")
            THEN on_conflict(advance(L3, None), PyBool(FALSE))
            ELSE on_conflict(L3, None)
    IN  order(advance(advance(check(L, <<KW("PRIMARY")>>),
                              Expecting(<<KW("KEY")>>)), None))

Parser_match_primary_key_table_constraint(L) ==
    LET \* lines 543-550, r being [lx, val |-> columns] after the closing
        \* parenthesis was passed
        constraint(r) ==
            IF Failed(r.lx) THEN Ret(r.lx, None)
            ELSE IF ValueIs(r.lx.current_token, "ON")
            THEN LET oc == match_on_conflict_clause(r.lx)
                 IN  Ret(oc.lx, [node |-> "PrimaryKeyTableConstraint",
                                 columns |-> r.val, on_conflict |-> oc.val])
            ELSE Ret(r.lx, [node |-> "PrimaryKeyTableConstraint",
                            columns |-> r.val, on_conflict |-> None])
        \* lines 541-543
        close(r) ==
            Ret(advance(check(r.lx, <<TT("RIGHT_PARENTHESIS")>>), None), r.val)
        L1 == check(L, <<KW("PRIMARY")>>)
        L2 == advance(L1, Expecting(<<KW("KEY")>>))
        L3 == advance(L2, Expecting(<<TT("LEFT_PARENTHESIS")>>))
        L4 == advance(L3, None)
    IN  constraint(close(match_identifier_list(L4, <<>>)))

Parser_match_check_constraint(L) ==
    LET L1 == check(L, <<KW("CHECK")>>)
        L2 == advance(L1, Expecting(<<TT("LEFT_PARENTHESIS")>>))
        start_index == L2.index
        L3 == advance(L2, None)
        r == match_expression(L3, -1, L.verbatim, start_index)
        L4 == check(r.lx, <<TT("RIGHT_PARENTHESIS")>>)
        L5 == advance(L4, None)
    IN  Ret(L5, [node |-> "CheckConstraint", expr |-> r.val])

Parser_match_collate_constraint(L) ==
    LET L1 == check(L, <<KW("COLLATE")>>)
        L2 == advance(L1, Expecting(<<TV("IDENTIFIER", "BINARY"),
                                      TV("IDENTIFIER", "NOCASE"),
                                      TV("IDENTIFIER", "RTRIM")>>))
        sequence == L2.current_token
        L3 == advance(L2, None)
    IN  IF Failed(L3) THEN Ret(L3, None)
        ELSE IF ValueIs(sequence, "NOCASE")
        THEN Ret(L3, [node |-> "CollateConstraint",
                      sequence |-> Enum("CollatingSequence", "NOCASE")])
        ELSE IF ValueIs(sequence, "RTRIM")
        THEN Ret(L3, [node |-> "CollateConstraint",
                      sequence |-> Enum("CollatingSequence", "RTRIM")])
        ELSE IF ValueIs(sequence, "BINARY")
        THEN Ret(L3, [node |-> "CollateConstraint",
                      sequence |-> Enum("CollatingSequence", "BINARY")])
        ELSE Ret(Raise(L3, "SQLiteParserImpossibleError", "sequence"), None)

Parser_match_unique_constraint(L) ==
    LET L1 == check(L, <<KW("UNIQUE")>>)
        L2 == advance(L1, None)
        token == L2.current_token
    IN  IF Failed(L2) THEN Ret(L2, None)
        ELSE IF token # None /\ token.type = "KEYWORD" /\ ValueIs(token, "ON")
        THEN LET r == match_on_conflict_clause(L2)
             IN  Ret(r.lx, [node |-> "UniqueConstraint", on_conflict |-> r.val])
        ELSE Ret(L2, [node |-> "UniqueConstraint", on_conflict |-> None])

Parser_match_generated_column_constraint(L) ==
    LET \* lines 611-621, r being [lx, val |-> expression] after the closing
        \* parenthesis was passed
        constraint(r) ==
            IF Failed(r.lx) THEN Ret(r.lx, None)
            ELSE IF ValueIs(r.lx.current_token, "STORED")
            THEN Ret(advance(r.lx, None),
                     [node |-> "GeneratedColumnConstraint",
                      expression |-> r.val,
                      storage |-> Enum("GeneratedColumnStorage", "STORED")])
            ELSE IF ValueIs(r.lx.current_token, "VIRTUAL")
            THEN Ret(advance(r.lx, None),
                     [node |-> "GeneratedColumnConstraint",
                      expression |-> r.val,
                      storage |-> Enum("GeneratedColumnStorage", "VIRTUAL")])
            ELSE Ret(r.lx, [node |-> "GeneratedColumnConstraint",
                            expression |-> r.val, storage |-> None])
        \* lines 609-611
        close(r) ==
            Ret(advance(check(r.lx, <<TT("RIGHT_PARENTHESIS")>>), None), r.val)
        \* lines 606-608, L3 standing on the left parenthesis
        expression(L3) ==
            match_expression(advance(L3, None), -1, L.verbatim, L3.index)
        \* lines 601-603
        always_as(L1) ==
            IF ValueIs(current(L1), "GENERATED")
            THEN advance(advance(L1, Expecting(<<KW("ALWAYS")>>)),
                         Expecting(<<KW("AS")>>))
            ELSE L1
        L1 == check(L, <<KW("GENERATED"), KW("AS")>>)
        L3 == advance(always_as(L1), Expecting(<<TT("LEFT_PARENTHESIS")>>))
    IN  constraint(close(expression(L3)))

Parser_match_default_clause(L) ==
    LET L1 == check(L, <<KW("DEFAULT")>>)
        L2 == advance(L1, Expecting(<<TT("LEFT_PARENTHESIS"), TT("STRING"),
                  TT("INTEGER"), TT("IDENTIFIER"), KW("NULL"), KW("CURRENT_TIME"),
                  KW("CURRENT_DATE"), KW("CURRENT_TIMESTAMP")>>))
        token == L2.current_token
    IN  IF Failed(L2) THEN Ret(L2, None)
        ELSE IF token.type = "LEFT_PARENTHESIS"
        THEN LET start_index == L2.index
                 L3 == advance(L2, None)
                 r == match_expression(L3, -1, L.verbatim, start_index)
                 L4 == check(r.lx, <<TT("RIGHT_PARENTHESIS")>>)
             IN  Ret(advance(L4, None), r.val)
        ELSE IF token.type = "STRING"
        THEN Ret(advance(L2, None), [node |-> "String", value |-> token.value])
        ELSE IF token.type = "BLOB"
        THEN Ret(advance(L2, None), [node |-> "Blob", value |-> token.value])
        ELSE IF token.type = "INTEGER"
        THEN Ret(advance(L2, None),
                 [node |-> "Integer", value |-> int(token.value)])
        ELSE IF token.type = "IDENTIFIER"
        THEN IF Str(upper(token.value)) \in {"TRUE", "FALSE"}
             THEN Ret(advance(L2, None),
                      [node |-> "Boolean",
                       value |-> (Str(upper(token.value)) = "TRUE")])
             ELSE Ret(Raise(L2, "SQLiteParserError", ""), None)
        ELSE IF token.type = "KEYWORD"
        THEN LET L3 == advance(L2, None) IN
             IF ValueIs(token, "NULL") THEN Ret(L3, [node |-> "Null"])
             ELSE IF ValueIs(token, "CURRENT_TIME")
             THEN Ret(L3, Enum("DefaultValue", "CURRENT_TIME"))
             ELSE IF ValueIs(token, "CURRENT_TIMESTAMP")
             THEN Ret(L3, Enum("DefaultValue", "CURRENT_TIMESTAMP"))
             ELSE IF ValueIs(token, "CURRENT_DATE")
             THEN Ret(L3, Enum("DefaultValue", "CURRENT_DATE"))
             ELSE Ret(Raise(L3, "SQLiteParserImpossibleError", "value"), None)
        ELSE Ret(Raise(L2, "SQLiteParserImpossibleError", "type"), None)

ForeignKeyConstraint(columns, foreign_table, foreign_columns, on_delete, on_update, match, deferrable, initially_deferred) ==
    [node |-> "ForeignKeyConstraint", columns |-> columns,
     foreign_table |-> foreign_table, foreign_columns |-> foreign_columns,
     on_delete |-> on_delete, on_update |-> on_update, match |-> match,
     deferrable |-> deferrable, initially_deferred |-> initially_deferred]

\* The value of an ON DELETE / ON UPDATE action, whose first token is the
\* current token of L: [lx, val].
match_foreign_key_action(L) ==
    LET token == L.current_token IN
    IF Failed(L) THEN Ret(L, None)
    ELSE IF ValueIs(token, "SET")
    THEN LET L1 == advance(L, Expecting(<<KW("NULL"), KW("DEFAULT")>>))
         IN  Ret(L1, IF ValueIs(L1.current_token, "NULL")
                     THEN Enum("OnDelete", "SET_NULL")
                     ELSE Enum("OnDelete", "SET_DEFAULT"))
    ELSE IF ValueIs(token, "NO")
    THEN Ret(advance(L, Expecting(<<KW("ACTION")>>)), Enum("OnDelete", "NO_ACTION"))
    ELSE IF ValueIs(token, "CASCADE") THEN Ret(L, Enum("OnDelete", "CASCADE"))
    ELSE IF ValueIs(token, "RESTRICT") THEN Ret(L, Enum("OnDelete", "RESTRICT"))
    ELSE Ret(Raise(L, "SQLiteParserImpossibleError", "value"), None)

\* match_foreign_key_direction keeping the first action of a direction: a
\* later clause for the same direction is read and dropped.
match_foreign_key_direction_first_wins(fk, delete_or_update, value) ==
    IF ValueIs(delete_or_update, "DELETE")
    THEN IF fk.on_delete = None THEN [fk EXCEPT !.on_delete = value] ELSE fk
    ELSE IF fk.on_update = None THEN [fk EXCEPT !.on_update = value] ELSE fk

\* lines 427-430 of match_foreign_key_clause: the action goes to its direction
match_foreign_key_direction(fk, delete_or_update, value) ==
    IF ValueIs(delete_or_update, "DELETE")
    THEN [fk EXCEPT !.on_delete = value]
    ELSE [fk EXCEPT !.on_update = value]

RECURSIVE match_foreign_key_clause_loop(_, _)
\* The `while True` loop of match_foreign_key_clause; fk holds the locals
\* on_delete, on_update, match, deferrable and initially_deferred, and the
\* local `token` is the lexer's current token.
match_foreign_key_clause_loop(L, fk) ==
    LET token == L.current_token IN
    IF Failed(L) THEN Ret(L, fk)
    ELSE IF token = None THEN Ret(L, fk)
    ELSE IF ValueIs(token, "ON")
    THEN LET L1 == advance(L, Expecting(<<KW("DELETE"), KW("UPDATE")>>))
             delete_or_update == L1.current_token
             L2 == advance(L1, Expecting(<<KW("SET"), KW("CASCADE"),
                                           KW("RESTRICT"), KW("NO")>>))
             r == match_foreign_key_action(L2)
             fk1 == match_foreign_key_direction(fk, delete_or_update, r.val)
         IN  IF Failed(r.lx) THEN Ret(r.lx, fk)
             ELSE match_foreign_key_clause_loop(advance(r.lx, None), fk1)
    ELSE IF ValueIs(token, "MATCH")
    THEN LET L1 == advance(L, Expecting(<<KW("SIMPLE"), KW("FULL"),
                                          KW("PARTIAL")>>))
             match_token == L1.current_token
             match == IF ValueIs(match_token, "FULL")
                      THEN Enum("ForeignKeyMatch", "FULL")
                      ELSE IF ValueIs(match_token, "PARTIAL")
                      THEN Enum("ForeignKeyMatch", "PARTIAL")
                      ELSE Enum("ForeignKeyMatch", "SIMPLE")
         IN  IF Failed(L1) THEN Ret(L1, fk)
             ELSE match_foreign_key_clause_loop(advance(L1, None),
                      [fk EXCEPT !.match = match])
    ELSE IF ValueIs(token, "NOT") \/ ValueIs(token, "DEFERRABLE")
    THEN LET L1 == IF ValueIs(token, "NOT")
                   THEN advance(L, Expecting(<<KW("DEFERRABLE")>>))
                   ELSE L
             fk1 == [fk EXCEPT !.deferrable = PyBool(~ValueIs(token, "NOT"))]
             L2 == advance(L1, None)
             token2 == L2.current_token
         IN  IF Failed(L2) THEN Ret(L2, fk)
             ELSE IF ~(token2.type = "KEYWORD" /\ ValueIs(token2, "INITIALLY"))
             THEN Ret(L2, fk1)
             ELSE LET L3 == advance(L2, Expecting(<<KW("DEFERRED"),
                                                    KW("IMMEDIATE")>>))
                      fk2 == [fk1 EXCEPT !.initially_deferred =
                                 PyBool(ValueIs(L3.current_token, "DEFERRED"))]
                  IN  Ret(advance(L3, None), fk2)
    ELSE Ret(L, fk)

Parser_match_foreign_key_clause(L, columns) ==
    LET \* lines 461-470, f being the outcome of the loop
        constraint(f, foreign_table, identifiers) ==
            Ret(f.lx, ForeignKeyConstraint(columns, foreign_table,
                    identifiers, f.val.on_delete, f.val.on_update,
                    f.val.match, f.val.deferrable, f.val.initially_deferred))
        \* lines 395-459, r being [lx, val |-> foreign_columns]
        actions(r, foreign_table) ==
            IF Failed(r.lx) THEN Ret(r.lx, None)
            ELSE constraint(match_foreign_key_clause_loop(r.lx,
                     [on_delete |-> None, on_update |-> None, match |-> None,
                      deferrable |-> None, initially_deferred |-> None]),
                     foreign_table, r.val)
        \* lines 390-391
        close(r) ==
            Ret(advance(check(r.lx, <<TT("RIGHT_PARENTHESIS")>>), None), r.val)
        \* lines 386-393
        match_foreign_columns(L3) ==
            IF Failed(L3) THEN Ret(L3, <<>>)
            ELSE IF L3.current_token # None
                    /\ L3.current_token.type = "LEFT_PARENTHESIS"
            THEN close(match_identifier_list(advance(L3, None), <<>>))
            ELSE Ret(L3, <<>>)
        L1 == check(L, <<KW("REFERENCES")>>)
        L2 == advance(L1, Expecting(<<TT("IDENTIFIER")>>))
    IN  actions(match_foreign_columns(advance(L2, None)), L2.current_token.value)

Parser_match_foreign_key_constraint(L) ==
    LET \* lines 374-376, r being [lx, val |-> columns]
        references(r) ==
            match_foreign_key_clause(
                advance(check(r.lx, <<TT("RIGHT_PARENTHESIS")>>), None), r.val)
        L1 == check(L, <<KW("FOREIGN")>>)
        L2 == advance(L1, Expecting(<<KW("KEY")>>))
        L3 == advance(L2, Expecting(<<TT("LEFT_PARENTHESIS")>>))
        L4 == advance(L3, None)
    IN  references(match_identifier_list(L4, <<>>))

RECURSIVE match_column_type_args(_, _)
\* The `while True` loop over the arguments of a column type: [lx, args].
\* The loop has no exit at the end of the input: there advance() gives the
\* EOF token again and again, and the code never returns.  An iteration that
\* leaves the lexer as it found it is that case, recorded as NonTermination.
match_column_type_args(L, args) ==
    LET L1 == advance(L, None)
        token == L1.current_token
    IN  IF Failed(L1) THEN Ret(L1, args)
        ELSE IF token.type = "RIGHT_PARENTHESIS" THEN Ret(L1, args)
        ELSE IF token.type = "INTEGER"
        THEN LET L2 == advance(L1, None)
                 token2 == L2.current_token
                 args1 == Append(args, int(token.value))
             IN  IF Failed(L2) THEN Ret(L2, args1)
                 ELSE IF token2.type = "COMMA"
                 THEN match_column_type_args(L2, args1)
                 ELSE IF token2.type = "RIGHT_PARENTHESIS" THEN Ret(L2, args1)
                 ELSE Ret(Raise(L2, "SQLiteParserError",
                                "expected comma or right parenthesis"), args1)
        ELSE IF L1 = L THEN Ret(Raise(L1, "NonTermination", ""), args)
        ELSE match_column_type_args(L1, args)

RECURSIVE match_column_type_words(_, _)
\* while token.type == TokenType.IDENTIFIER: [lx, name_parts]
match_column_type_words(L, name_parts) ==
    IF ~Failed(L) /\ L.current_token.type = "IDENTIFIER"
    THEN match_column_type_words(advance(L, None),
                                 Append(name_parts, L.current_token.value))
    ELSE Ret(L, name_parts)

Parser_match_column_type(L) ==
    LET L1 == advance(L, None)
        type_token == L1.current_token
        L2 == advance(L1, None)
        token == L2.current_token
    IN  IF Failed(L1) THEN Ret(L1, None)
        ELSE IF type_token.type # "IDENTIFIER" THEN Ret(L1, None)
        ELSE IF Failed(L2) THEN Ret(L2, None)
        ELSE IF token.type = "LEFT_PARENTHESIS"
        THEN LET r == match_column_type_args(L2, <<>>)
             IN  Ret(advance(r.lx, None),
                     [node |-> "ColumnType", name |-> type_token.value,
                      args |-> r.val])
        ELSE LET r == match_column_type_words(L2, <<type_token.value>>)
             IN  Ret(r.lx, PyStr(Join(<<" ">>, r.val)))

RECURSIVE match_column_loop(_, _, _)
\* The `while True` loop of match_column: [lx, val |-> [constraints, default]].
match_column_loop(L, constraints, default) ==
    LET token == current(L)
        here == [constraints |-> constraints, default |-> default]
        r == IF ValueIs(token, "PRIMARY") THEN match_primary_key_constraint(L)
             ELSE IF ValueIs(token, "NOT") THEN match_not_null_constraint(L)
             ELSE IF ValueIs(token, "CHECK") THEN match_check_constraint(L)
             ELSE IF ValueIs(token, "COLLATE") THEN match_collate_constraint(L)
             ELSE IF ValueIs(token, "REFERENCES")
             THEN match_foreign_key_clause(L, <<>>)
             ELSE IF ValueIs(token, "UNIQUE") THEN match_unique_constraint(L)
             ELSE match_generated_column_constraint(L)
    IN  IF Failed(L) THEN Ret(L, here)
        ELSE IF token # None /\ token.type = "KEYWORD"
        THEN IF ValueIs(token, "DEFAULT")
             THEN LET d == match_default_clause(L)
                  IN  match_column_loop(d.lx, constraints, d.val)
             ELSE IF ValueIs(token, "NULL")
             THEN match_column_loop(advance(L, None), constraints, default)
             ELSE IF \E k \in {"PRIMARY", "NOT", "CHECK", "COLLATE", "REFERENCES",
                               "UNIQUE", "GENERATED", "AS"} : ValueIs(token, k)
             THEN match_column_loop(r.lx, Append(constraints, r.val), default)
             ELSE Ret(Raise(L, "SQLiteParserError", "unexpected keyword"), here)
        ELSE Ret(L, here)

\* match_column_definition with the default left out of the test: a column
\* with nothing but a DEFAULT clause gets no definition.
match_column_definition_ignoring_default(column_type, default, constraints) ==
    IF column_type = None /\ constraints = <<>>
    THEN None
    ELSE [node |-> "ColumnDefinition", type |-> column_type,
          default |-> default, constraints |-> constraints]

\* lines 322-329 of match_column: the definition of the column
match_column_definition(column_type, default, constraints) ==
    IF column_type = None /\ default = None /\ constraints = <<>>
    THEN None
    ELSE [node |-> "ColumnDefinition", type |-> column_type,
          default |-> default, constraints |-> constraints]

Parser_match_column(L) ==
    LET \* lines 322-331, r being the outcome of the loop
        Column(r, name, column_type) ==
            IF Failed(r.lx) THEN Ret(r.lx, None)
            ELSE Ret(r.lx,
                     [node |-> "Column", name |-> name,
                      definition |->
                          match_column_definition(column_type, r.val.default,
                                                  r.val.constraints)])
        \* lines 289-320, t being [lx, val |-> column_type]
        constraints(t, name) ==
            Column(match_column_loop(t.lx, <<>>, None), name, t.val)
        \* lines 279-288
        definition(L1, name_token) ==
            IF Failed(L1) THEN Ret(L1, None)
            ELSE constraints(match_column_type(L1),
                             IF name_token.type = "KEYWORD"
                             THEN name_token.original_value.value
                             ELSE name_token.value)
        L1 == check(L, <<TT("IDENTIFIER"), TT("KEYWORD")>>)
    IN  definition(L1, current(L1))

Parser_match_column_or_constraint(L) ==
    LET token == current(L) IN
    IF Failed(L) THEN Ret(L, None)
    ELSE IF token.type = "KEYWORD" /\ ValueIs(token, "FOREIGN")
    THEN match_foreign_key_constraint(L)
    ELSE IF token.type = "KEYWORD" /\ ValueIs(token, "PRIMARY")
    THEN match_primary_key_table_constraint(L)
    ELSE IF token.type = "IDENTIFIER" \/ token.type = "KEYWORD"
    THEN match_column(L)
    ELSE Ret(Raise(L, "SQLiteParserError",
                   "expected start of column or constraint"), None)

\* match_create_table_statement_item with the check of `if constraints`
\* left out: a column is taken wherever it stands.
match_create_table_statement_item_any_order(L, columns, constraints) ==
    LET r == match_column_or_constraint(L)
    IN  IF Failed(r.lx)
        THEN Ret(r.lx, [columns |-> columns, constraints |-> constraints])
        ELSE IF r.val.node = "Column"
        THEN Ret(r.lx, [columns |-> Append(columns, r.val),
                        constraints |-> constraints])
        ELSE Ret(r.lx, [columns |-> columns,
                        constraints |-> Append(constraints, r.val)])

\* One column or constraint of the body of match_create_table_statement:
\* match it and file it under columns or constraints.
match_create_table_statement_item(L, columns, constraints) ==
    LET r == match_column_or_constraint(L)
        here == [columns |-> columns, constraints |-> constraints]
    IN  IF Failed(r.lx) THEN Ret(r.lx, here)
        ELSE IF r.val.node = "Column"
        THEN IF constraints # <<>>
             THEN Ret(Raise(r.lx, "SQLiteParserError", ""), here)
             ELSE Ret(r.lx, [columns |-> Append(columns, r.val),
                             constraints |-> constraints])
        ELSE Ret(r.lx, [columns |-> columns,
                        constraints |-> Append(constraints, r.val)])

RECURSIVE match_create_table_statement_loop(_, _, _)
\* The `while True` loop of match_create_table_statement:
\* [lx, val |-> [columns, constraints]].
match_create_table_statement_loop(L, columns, constraints) ==
    LET here == [columns |-> columns, constraints |-> constraints]
        \* lines 190-192, r being [lx, val |-> [columns, constraints]] with
        \* the check of line 190 made
        separator(r) ==
            IF Failed(r.lx) THEN Ret(r.lx, here)
            ELSE IF current(r.lx).type = "RIGHT_PARENTHESIS" THEN r
            ELSE match_create_table_statement_loop(r.lx, r.val.columns,
                                                   r.val.constraints)
        \* line 190
        checked(r) ==
            Ret(check(r.lx, <<TT("COMMA"), TT("RIGHT_PARENTHESIS")>>), r.val)
        \* lines 178-188
        item(L1) ==
            IF Failed(L1) THEN Ret(L1, here)
            ELSE IF L1.current_token.type = "RIGHT_PARENTHESIS"
            THEN Ret(L1, here)
            ELSE separator(checked(
                     match_create_table_statement_item(L1, columns, constraints)))
    IN  item(advance(L, None))

Parser_match_create_table_statement(L, if_not_exists, temporary, name) ==
    LET \* lines 205-212
        statement(L2, r, without_rowid) ==
            Ret(L2, [node |-> "CreateTableStatement", name |-> name,
                     columns |-> r.val.columns,
                     constraints |-> r.val.constraints, as_select |-> None,
                     temporary |-> temporary, without_rowid |-> without_rowid,
                     if_not_exists |-> if_not_exists])
        \* lines 195-203, the local `token` being the current token of L1
        rowid(L1, r) ==
            IF Failed(L1) THEN Ret(L1, None)
            ELSE IF L1.current_token = None THEN statement(L1, r, FALSE)
            ELSE IF L1.current_token.type = "KEYWORD"
                    /\ ValueIs(L1.current_token, "WITHOUT")
            THEN statement(advance(L1, Expecting(<<TV("IDENTIFIER", "ROWID")>>)),
                           r, TRUE)
            ELSE statement(push(L1, L1.current_token), r, FALSE)
        \* line 194, r being the outcome of the loop
        after(r) == rowid(advance(r.lx, None), r)
    IN  after(match_create_table_statement_loop(L, <<>>, <<>>))

Parser_match_create_index_statement(L, if_not_exists, unique, name) ==
    LET \* lines 232-238
        statement(table, columns, where) ==
            [node |-> "CreateIndexStatement", name |-> name,
             if_not_exists |-> if_not_exists, table |-> table,
             columns |-> columns, unique |-> unique, where |-> where]
        \* line 230, w being [lx, val |-> where]
        filtered(w, table, columns) ==
            Ret(w.lx, statement(table, columns, w.val))
        \* lines 228-230, L7 standing on WHERE
        where_clause(L7, table, columns) ==
            filtered(match_expression(advance(L7, None), -1, L.verbatim,
                                      L7.index), table, columns)
        \* lines 224-227, L6 standing on the token after the parenthesis
        clause(L6, table, columns) ==
            IF Failed(L6) THEN Ret(L6, None)
            ELSE IF L6.current_token.type = "SEMICOLON"
            THEN Ret(L6, statement(table, columns, None))
            ELSE where_clause(check(L6, <<KW("WHERE")>>), table, columns)
        \* lines 222-223, r being [lx, val |-> columns]
        close(r, table) ==
            clause(advance(check(r.lx, <<TT("RIGHT_PARENTHESIS")>>),
                           Expecting(<<TT("SEMICOLON"), TT("KEYWORD")>>)),
                   table, r.val)
        L1 == check(L, <<KW("ON")>>)
        L2 == advance(L1, None)
        L3 == advance(L2, Expecting(<<TT("LEFT_PARENTHESIS")>>))
        L4 == advance(L3, None)
    IN  close(match_identifier_list(L4, <<>>), L2.current_token.value)

Parser_match_create_virtual_table_statement(L, if_not_exists, name) ==
    Ret(Raise(L, "NotImplementedError",
              "Create virtual table is not yet implemented"), None)

Parser_match_create_trigger_statement(L, if_not_exists, name) ==
    Ret(Raise(L, "NotImplementedError",
              "Create trigger is not yet implemented"), None)

\* match_create_view_statement raising the parser's own error class
Parser_match_create_view_statement_as_syntax_error(L, if_not_exists, name) ==
    Ret(Raise(L, "SQLiteParserError", "create view is not yet implemented"),
        None)

Parser_match_create_view_statement(L, if_not_exists, name) ==
    Ret(Raise(L, "NotImplementedError",
              "create view is not yet implemented"), None)

Parser_match_create_statement(L) ==
    LET \* lines 158-170, r being [lx, val |-> name], token the one of line
        \* 125 and type the one of line 138
        statement(r, token, type, if_not_exists) ==
            IF Failed(r.lx) THEN Ret(r.lx, None)
            ELSE IF ValueIs(type, "TABLE")
            THEN IF ValueIs(token, "VIRTUAL")
                 THEN match_create_virtual_table_statement(r.lx, if_not_exists,
                                                           r.val)
                 ELSE match_create_table_statement(r.lx, if_not_exists,
                          ValueIs(token, "TEMPORARY") \/ ValueIs(token, "TEMP"),
                          r.val)
            ELSE IF ValueIs(type, "INDEX")
            THEN match_create_index_statement(r.lx, if_not_exists,
                                              ValueIs(token, "UNIQUE"), r.val)
            ELSE IF ValueIs(type, "TRIGGER")
            THEN match_create_trigger_statement(r.lx, if_not_exists, r.val)
            ELSE IF ValueIs(type, "VIEW")
            THEN match_create_view_statement(r.lx, if_not_exists, r.val)
            ELSE Ret(Raise(r.lx, "SQLiteParserError", "unknown type"), None)
        \* lines 153-154, L6 standing on the table name
        TableName(L6, name_token) ==
            Ret(advance(L6, Expecting(<<TT("LEFT_PARENTHESIS"),
                                        TT("KEYWORD")>>)),
                [node |-> "TableName", schema_name |-> name_token.value,
                 table_name |-> L6.current_token.value])
        \* lines 151-156
        name(L5, name_token) ==
            IF Failed(L5) THEN Ret(L5, None)
            ELSE IF L5.current_token.type = "DOT"
            THEN TableName(advance(L5, Expecting(<<TT("IDENTIFIER")>>)),
                           name_token)
            ELSE Ret(L5, PyStr(name_token.value))
        \* lines 140-147
        not_exists(L3) ==
            IF ValueIs(L3.current_token, "IF")
            THEN advance(advance(advance(L3, Expecting(<<KW("NOT")>>)),
                                 Expecting(<<KW("EXISTS")>>)),
                         Expecting(<<TT("IDENTIFIER")>>))
            ELSE L3
        \* lines 129-137
        modifier(L1) ==
            IF ValueIs(L1.current_token, "TEMPORARY")
               \/ ValueIs(L1.current_token, "TEMP")
            THEN advance(L1, Expecting(<<KW("TABLE"), KW("TRIGGER"),
                                         KW("VIEW")>>))
            ELSE IF ValueIs(L1.current_token, "UNIQUE")
            THEN advance(L1, Expecting(<<KW("INDEX")>>))
            ELSE IF ValueIs(L1.current_token, "VIRTUAL")
            THEN advance(L1, Expecting(<<KW("TABLE")>>))
            ELSE L1
        L1 == advance(L, Expecting(<<KW("TABLE"), KW("TEMPORARY"), KW("TEMP"),
                  KW("UNIQUE"), KW("INDEX"), KW("TRIGGER"), KW("VIEW"),
                  KW("VIRTUAL")>>))
        L2 == modifier(L1)
        L3 == advance(L2, Expecting(<<KW("IF"), TT("IDENTIFIER"), KW("TEMP")>>))
        L4 == not_exists(L3)
        L5 == advance(L4, Expecting(<<TT("DOT"), TT("LEFT_PARENTHESIS"),
                                      TT("KEYWORD")>>))
    IN  statement(name(L5, L4.current_token), L1.current_token,
                  L2.current_token, ValueIs(L3.current_token, "IF"))

Parser_match_select_statement(L) ==
    LET r == match_expression(advance(L, None), -1, FALSE, 0)
    IN  Ret(r.lx, [node |-> "SelectStatement", columns |-> <<r.val>>])

Parser_match_statement(L) ==
    LET token == current(L) IN
    IF Failed(L) THEN Ret(L, None)
    ELSE IF token.type = "KEYWORD"
    THEN IF ValueIs(token, "CREATE") THEN match_create_statement(L)
         ELSE IF ValueIs(token, "SELECT") THEN match_select_statement(L)
         ELSE Ret(Raise(L, "SQLiteParserError", "unexpected keyword"), None)
    ELSE Ret(Raise(L, "SQLiteParserError", "unexpected token type"), None)

\* r = f(self, *args, **kwargs)
Invoke(method, args) ==
    CASE method = "Lexer.advance" ->
             Lexer_advance(args[1], args[2])
      [] method = "Lexer.check" ->
             Lexer_check(args[1], args[2])
      [] method = "Lexer.push" ->
             Lexer_push(args[1], args[2])
      [] method = "Lexer._advance" ->
             Lexer__advance(args[1])
      [] method = "Lexer.read_symbol" ->
             Lexer_read_symbol(args[1])
      [] method = "Lexer.read_integer" ->
             Lexer_read_integer(args[1])
      [] method = "Lexer.read_blob" ->
             Lexer_read_blob(args[1])
      [] method = "Lexer.read_generic_string" ->
             Lexer_read_generic_string(args[1], args[2], args[3], args[4])
      [] method = "Parser.match_statement" ->
             Parser_match_statement(args[1])
      [] method = "Parser.match_create_statement" ->
             Parser_match_create_statement(args[1])
      [] method = "Parser.match_create_table_statement" ->
             Parser_match_create_table_statement(args[1], args[2], args[3], args[4])
      [] method = "Parser.match_create_index_statement" ->
             Parser_match_create_index_statement(args[1], args[2], args[3], args[4])
      [] method = "Parser.match_create_virtual_table_statement" ->
             Parser_match_create_virtual_table_statement(args[1], args[2], args[3])
      [] method = "Parser.match_create_trigger_statement" ->
             Parser_match_create_trigger_statement(args[1], args[2], args[3])
      [] method = "Parser.match_create_view_statement" ->
             Parser_match_create_view_statement(args[1], args[2], args[3])
      [] method = "Parser.match_select_statement" ->
             Parser_match_select_statement(args[1])
      [] method = "Parser.match_column_or_constraint" ->
             Parser_match_column_or_constraint(args[1])
      [] method = "Parser.match_column" ->
             Parser_match_column(args[1])
      [] method = "Parser.match_column_type" ->
             Parser_match_column_type(args[1])
      [] method = "Parser.match_foreign_key_constraint" ->
             Parser_match_foreign_key_constraint(args[1])
      [] method = "Parser.match_foreign_key_clause" ->
             Parser_match_foreign_key_clause(args[1], args[2])
      [] method = "Parser.match_not_null_constraint" ->
             Parser_match_not_null_constraint(args[1])
      [] method = "Parser.match_primary_key_constraint" ->
             Parser_match_primary_key_constraint(args[1])
      [] method = "Parser.match_primary_key_table_constraint" ->
             Parser_match_primary_key_table_constraint(args[1])
      [] method = "Parser.match_check_constraint" ->
             Parser_match_check_constraint(args[1])
      [] method = "Parser.match_collate_constraint" ->
             Parser_match_collate_constraint(args[1])
      [] method = "Parser.match_unique_constraint" ->
             Parser_match_unique_constraint(args[1])
      [] method = "Parser.match_generated_column_constraint" ->
             Parser_match_generated_column_constraint(args[1])
      [] method = "Parser.match_default_clause" ->
             Parser_match_default_clause(args[1])
      [] method = "Parser.match_on_conflict_clause" ->
             Parser_match_on_conflict_clause(args[1])
      [] method = "Parser.match_expression" ->
             Parser_match_expression(args[1], args[2], args[3], args[4])
      [] method = "Parser.match_infix" ->
             Parser_match_infix(args[1], args[2], args[3])
      [] method = "Parser.match_prefix" ->
             Parser_match_prefix(args[1])

\* Parser.parse_column: [lx, val]
Parser_parse_column(L) ==
    LET \* lines 91-93, r being [lx, val |-> column]
        trailing(r) ==
            IF Failed(r.lx) THEN r
            ELSE IF ~done(r.lx)
            THEN Ret(Raise(r.lx, "SQLiteParserError", "trailing input"), None)
            ELSE r
    IN  trailing(match_column(L))

\* One pass of the `while True` loop of Parser.parse that does not break:
\* [lx, val |-> the statements so far].
Parser_parse_iteration(L, stmts) ==
    LET \* lines 82-85, r being [lx, val |-> statement]
        append(r) ==
            IF Failed(r.lx) THEN Ret(r.lx, stmts)
            ELSE IF ~done(r.lx)
            THEN Ret(advance(r.lx, Expecting(<<TT("SEMICOLON")>>)),
                     Append(stmts, r.val))
            ELSE Ret(r.lx, Append(stmts, r.val))
    IN  append(match_statement(L))

RECURSIVE Parser_parse(_, _)
\* Parser.parse, run to its end: [lx, val |-> statements]
Parser_parse(L, stmts) ==
    LET next(r) == Parser_parse(r.lx, r.val) IN
    IF Failed(L) \/ done(L) THEN Ret(L, stmts)
    ELSE next(Parser_parse_iteration(L, stmts))

\* parse(program, verbatim=...): [lx, val |-> statements]
parse(prog, verbatim) ==
    LET L == Lexer(prog) IN
    IF Failed(L) THEN Ret(L, <<>>) ELSE Parser_parse(Parser(L, verbatim), <<>>)

\* parse_column(column_string): [lx, val |-> Column]
parse_column(column_string) ==
    LET L == Lexer(column_string) IN
    IF Failed(L) THEN Ret(L, None) ELSE Parser_parse_column(Parser(L, FALSE))

\* ------------------------------------------------------------ rendering

RECURSIVE replace(_, _, _)
\* s.replace(old, new) for a one-character old
replace(s, old, new) ==
    IF s = <<>> THEN <<>>
    ELSE (IF Head(s) = old THEN new ELSE <<Head(s)>>) \o replace(Tail(s), old, new)

quote(s) ==
    IF ~(s # <<>> /\ Head(s) = "\"" /\ s[Len(s)] = "\"")
    THEN <<"\"">> \o replace(s, "\"", <<"\"", "\"">>) \o <<"\"">>
    ELSE s

\* StringEnum.__str__ and its overrides: the text of a member
Enum_str(e) ==
    IF e.name = "ROLLBACK" THEN <<"R","O","L","L","B","A","C","K">>
    ELSE IF e.name = "ABORT" THEN <<"A","B","O","R","T">>
    ELSE IF e.name = "FAIL" THEN <<"F","A","I","L">>
    ELSE IF e.name = "IGNORE" THEN <<"I","G","N","O","R","E">>
    ELSE IF e.name = "REPLACE" THEN <<"R","E","P","L","A","C","E">>
    ELSE IF e.name = "SET_NULL" THEN <<"S","E","T"," ","N","U","L","L">>
    ELSE IF e.name = "SET_DEFAULT" THEN <<"S","E","T"," ","D","E","F","A","U","L","T">>
    ELSE IF e.name = "NO_ACTION" THEN <<"N","O"," ","A","C","T","I","O","N">>
    ELSE IF e.name = "CASCADE" THEN <<"C","A","S","C","A","D","E">>
    ELSE IF e.name = "RESTRICT" THEN <<"R","E","S","T","R","I","C","T">>
    ELSE IF e.name = "SIMPLE" THEN <<"S","I","M","P","L","E">>
    ELSE IF e.name = "FULL" THEN <<"F","U","L","L">>
    ELSE IF e.name = "PARTIAL" THEN <<"P","A","R","T","I","A","L">>
    ELSE IF e.name = "BINARY" THEN <<"B","I","N","A","R","Y">>
    ELSE IF e.name = "NOCASE" THEN <<"N","O","C","A","S","E">>
    ELSE IF e.name = "RTRIM" THEN <<"R","T","R","I","M">>
    ELSE IF e.name = "VIRTUAL" THEN <<"V","I","R","T","U","A","L">>
    ELSE IF e.name = "STORED" THEN <<"S","T","O","R","E","D">>
    ELSE IF e.name = "CURRENT_TIME" THEN <<"C","U","R","R","E","N","T","_","T","I","M","E">>
    ELSE IF e.name = "CURRENT_TIMESTAMP" THEN <<"C","U","R","R","E","N","T","_","T","I","M","E","S","T","A","M","P">>
    ELSE <<"C","U","R","R","E","N","T","_","D","A","T","E">>

EnumClasses == {"OnConflict", "OnDelete", "ForeignKeyMatch", "CollatingSequence",
                "GeneratedColumnStorage", "DefaultValue"}

\* f"{hex(b)[2:]:0>2}"
hex2(b) == <<HexDigits[(b \div 16) + 1], HexDigits[(b % 16) + 1]>>

RECURSIVE as_string(_, _)
RECURSIVE str(_)
RECURSIVE MapStr(_)
RECURSIVE MapAsString(_)

\* [str(x) for x in xs]
MapStr(xs) == IF xs = <<>> THEN <<>> ELSE <<str(Head(xs))>> \o MapStr(Tail(xs))

\* [x.as_string(p=False) for x in xs]
MapAsString(xs) ==
    IF xs = <<>> THEN <<>>
    ELSE <<as_string(Head(xs), FALSE)>> \o MapAsString(Tail(xs))

\* str(x): a str is itself, an enumeration member has its __str__, and a
\* Node gives as_string(p=True) (Node.__str__).
str(x) ==
    IF x.node = "str" THEN x.value
    ELSE IF x.node \in EnumClasses THEN Enum_str(x)
    ELSE as_string(x, TRUE)

RECURSIVE CreateTableStatement_columns(_, _, _)
\* for i, column in enumerate(self.columns): ...
CreateTableStatement_columns(self, i, builder) ==
    IF i >= Len(self.columns) THEN builder
    ELSE CreateTableStatement_columns(self, i + 1,
             builder \o str(self.columns[i + 1])
                 \o (IF i < Len(self.columns) - 1 \/ self.constraints # <<>>
                     THEN <<",">> ELSE <<>>)
                 \o <<"\n">>)

RECURSIVE CreateTableStatement_constraints(_, _, _)
\* for i, constraint in enumerate(self.constraints): ...
CreateTableStatement_constraints(self, i, builder) ==
    IF i >= Len(self.constraints) THEN builder
    ELSE CreateTableStatement_constraints(self, i + 1,
             builder \o str(self.constraints[i + 1])
                 \o (IF i < Len(self.constraints) - 1 THEN <<",">> ELSE <<>>)
                 \o <<"\n">>)

CreateTableStatement_as_string(self, p) ==
    LET b1 == <<"C","R","E","A","T","E"," ">> \o (IF self.temporary THEN <<"T","E","M","P","O","R","A","R","Y"," ">> ELSE <<>>)
              \o <<"T","A","B","L","E"," ">>
              \o (IF self.if_not_exists THEN <<"I","F"," ","N","O","T"," ","E","X","I","S","T","S"," ">> ELSE <<>>)
              \o (IF self.name.node = "TableName" THEN str(self.name)
                  ELSE quote(self.name.value))
        b2 == CreateTableStatement_columns(self, 0, b1 \o <<"(", "\n">>)
        b3 == CreateTableStatement_constraints(self, 0, b2)
    IN  IF self.as_select # None
        THEN b1 \o <<" ","A","S"," ">> \o str(self.as_select)
        ELSE b3 \o <<")">>
             \o (IF self.without_rowid THEN <<" ","W","I","T","H","O","U","T"," ","R","O","W","I","D">> ELSE <<>>)

Column_as_string(self, p) ==
    IF self.definition = None THEN quote(self.name)
    ELSE quote(self.name) \o <<" ">> \o as_string(self.definition, FALSE)

ColumnType_as_string(self, p) ==
    quote(self.name) \o <<"(">>
        \o Join(<<",", " ">>, [i \in DOMAIN self.args |-> str_int(self.args[i])])
        \o <<")">>

ColumnDefinition_as_string(self, p) ==
    (IF self.type # None THEN <<" ">> \o str(self.type) ELSE <<>>)
    \o Cat([i \in DOMAIN self.constraints |->
               <<" ">> \o str(self.constraints[i])])
    \o (IF self.default # None THEN <<" ","D","E","F","A","U","L","T"," ">> \o str(self.default) ELSE <<>>)

CheckConstraint_as_string(self, p) ==
    <<"C","H","E","C","K","(">> \o as_string(self.expr, FALSE) \o <<")">>

NotNullConstraint_as_string(self, p) ==
    IF self.on_conflict # None THEN <<"N","O","T"," ","N","U","L","L"," ">> \o str(self.on_conflict)
    ELSE <<"N","O","T"," ","N","U","L","L">>

PrimaryKeyConstraint_as_string(self, p) ==
    <<"P","R","I","M","A","R","Y"," ","K","E","Y">>
    \o (IF self.ascending # None
        THEN IF self.ascending.value THEN <<" ","A","S","C">> ELSE <<" ","D","E","S","C">>
        ELSE <<>>)
    \o (IF self.on_conflict # None THEN <<" ">> \o str(self.on_conflict)
        ELSE <<>>)
    \o (IF self.autoincrement THEN <<" ","A","U","T","O","I","N","C","R","E","M","E","N","T">> ELSE <<>>)

PrimaryKeyTableConstraint_as_string(self, p) ==
    <<"P","R","I","M","A","R","Y"," ","K","E","Y"," ","(">> \o Join(<<",", " ">>, self.columns) \o <<")">>
    \o (IF self.on_conflict # None THEN <<" ">> \o str(self.on_conflict)
        ELSE <<>>)

CollateConstraint_as_string(self, p) == <<"C","O","L","L","A","T","E"," ">> \o str(self.sequence)

ForeignKeyConstraint_as_string(self, p) ==
    (IF self.columns # <<>>
     THEN <<"F","O","R","E","I","G","N"," ","K","E","Y"," ","(">> \o Join(<<",", " ">>, self.columns) \o <<" ">>
     ELSE <<>>)
    \o <<"R","E","F","E","R","E","N","C","E","S"," ">> \o self.foreign_table
    \o (IF self.foreign_columns # <<>>
        THEN <<"(">> \o Join(<<",", " ">>, self.foreign_columns) \o <<")">>
        ELSE <<>>)
    \o (IF self.on_delete # None THEN <<" ","O","N"," ","D","E","L","E","T","E"," ">> \o str(self.on_delete)
        ELSE <<>>)
    \o (IF self.on_update # None THEN <<" ","O","N"," ","U","P","D","A","T","E"," ">> \o str(self.on_update)
        ELSE <<>>)
    \o (IF self.match # None THEN <<" ","M","A","T","C","H"," ">> \o str(self.match) ELSE <<>>)
    \o (IF self.deferrable # None
        THEN <<" ">> \o (IF ~self.deferrable.value THEN <<"N","O","T">> ELSE <<>>)
             \o <<" ","D","E","F","E","R","R","A","B","L","E">>
             \o (IF self.initially_deferred # None
                 THEN <<" ","I","N","I","T","I","A","L","L","Y"," ">>
                      \o (IF self.initially_deferred.value THEN <<"D","E","F","E","R","R","E","D">>
                          ELSE <<"I","M","M","E","D","I","A","T","E">>)
                 ELSE <<>>)
        ELSE <<>>)

UniqueConstraint_as_string(self, p) ==
    IF self.on_conflict # None THEN <<"U","N","I","Q","U","E"," ">> \o str(self.on_conflict)
    ELSE <<"U","N","I","Q","U","E">>

GeneratedColumnConstraint_as_string(self, p) ==
    <<"G","E","N","E","R","A","T","E","D"," ","A","L","W","A","Y","S"," ","A","S"," ","(">> \o as_string(self.expression, FALSE) \o <<")">>
    \o (IF self.storage = None THEN <<>> ELSE <<" ">> \o str(self.storage))

Infix_as_string(self, p) ==
    LET left == as_string(self.left, TRUE)
        right == as_string(self.right, TRUE)
        core == left \o <<" ">> \o self.operator \o <<" ">> \o right
    IN  IF p THEN <<"(">> \o core \o <<")">> ELSE core

Call_as_string(self, p) ==
    LET function_string == as_string(self.function, FALSE)
        joined == Join(<<",", " ">>, MapAsString(self.arguments))
        arguments_string ==
            IF self.star THEN <<"*">>
            ELSE IF self.distinct THEN <<"D","I","S","T","I","N","C","T"," ">> \o joined
            ELSE joined
    IN  function_string \o <<"(">> \o arguments_string \o <<")">>

ExpressionList_as_string(self, p) ==
    <<"(">> \o Join(<<",", " ">>, MapAsString(self.values)) \o <<")">>

Identifier_as_string(self, p) == quote(self.value)

String_as_string(self, p) ==
    <<"'">> \o replace(self.value, "'", <<"'", "'">>) \o <<"'">>

Blob_as_string(self, p) ==
    <<"X", "'">> \o Cat([i \in DOMAIN self.value |-> hex2(self.value[i])])
    \o <<"'">>

Integer_as_string(self, p) == str_int(self.value)

Null_as_string(self, p) == <<"N","U","L","L">>

Boolean_as_string(self, p) == IF self.value THEN <<"T","R","U","E">> ELSE <<"F","A","L","S","E">>

TableName_as_string(self, p) ==
    quote(self.schema_name) \o <<".">> \o quote(self.table_name)

\* The classes that define as_string; the others inherit Node.as_string.
HasAsString ==
    {"CreateTableStatement", "Column", "ColumnType", "ColumnDefinition",
     "CheckConstraint", "NotNullConstraint", "PrimaryKeyConstraint",
     "PrimaryKeyTableConstraint", "CollateConstraint", "ForeignKeyConstraint",
     "UniqueConstraint", "GeneratedColumnConstraint", "Infix", "Call",
     "ExpressionList", "Identifier", "String", "Blob", "Integer", "Null",
     "Boolean", "TableName"}

\* self.as_string(p=p), dispatched on the class of self
as_string(self, p) ==
    CASE self.node = "CreateTableStatement" -> CreateTableStatement_as_string(self, p)
      [] self.node = "Column" -> Column_as_string(self, p)
      [] self.node = "ColumnType" -> ColumnType_as_string(self, p)
      [] self.node = "ColumnDefinition" -> ColumnDefinition_as_string(self, p)
      [] self.node = "CheckConstraint" -> CheckConstraint_as_string(self, p)
      [] self.node = "NotNullConstraint" -> NotNullConstraint_as_string(self, p)
      [] self.node = "PrimaryKeyConstraint" -> PrimaryKeyConstraint_as_string(self, p)
      [] self.node = "PrimaryKeyTableConstraint" ->
             PrimaryKeyTableConstraint_as_string(self, p)
      [] self.node = "CollateConstraint" -> CollateConstraint_as_string(self, p)
      [] self.node = "ForeignKeyConstraint" -> ForeignKeyConstraint_as_string(self, p)
      [] self.node = "UniqueConstraint" -> UniqueConstraint_as_string(self, p)
      [] self.node = "GeneratedColumnConstraint" ->
             GeneratedColumnConstraint_as_string(self, p)
      [] self.node = "Infix" -> Infix_as_string(self, p)
      [] self.node = "Call" -> Call_as_string(self, p)
      [] self.node = "ExpressionList" -> ExpressionList_as_string(self, p)
      [] self.node = "Identifier" -> Identifier_as_string(self, p)
      [] self.node = "String" -> String_as_string(self, p)
      [] self.node = "Blob" -> Blob_as_string(self, p)
      [] self.node = "Integer" -> Integer_as_string(self, p)
      [] self.node = "Null" -> Null_as_string(self, p)
      [] self.node = "Boolean" -> Boolean_as_string(self, p)
      [] self.node = "TableName" -> TableName_as_string(self, p)

\* Node.__str__ as seen by the caller of str(statement): the text, or the
\* NotImplementedError of Node.as_string / SelectStatement.as_string.
Node_str(self) ==
    IF self.node \in HasAsString
    THEN [exc |-> None, val |-> as_string(self, TRUE)]
    ELSE [exc |-> [node |-> "NotImplementedError", msg |-> ""], val |-> <<>>]

\* ============================================================== the runs
\* A run is one call of parse or parse_column on a source text, then
\* str() of what it returned, then parse of that text again.

VARIABLES
    input,       \* how the source text was put together
    lexer,       \* the Lexer (and the Parser's verbatim flag) being run
    statements,  \* the list Parser.parse builds and returns
    column,      \* what parse_column returned, None before
    rendered,    \* str() of each statement returned: [exc, val]
    first,       \* the text str() gave in the first pass, the source of the second
    pass,        \* 1: the source text is parsed; 2: its rendering is
    call,        \* the last call a run made on the Lexer itself, None in the
                 \* runs of parse and parse_column
    pc           \* "parsing", "returned", "raised", "rendered", "looping"

vars == <<input, lexer, statements, column, rendered, first, pass, call, pc>>

\* ------------------------------------------------------------- bounds
MaxStatements == 2
MaxItems == 3
MaxDepth == 2

\* All sequences over S of length at most n
SeqsUpTo(S, n) == UNION {[1..k -> S] : k \in 0..n}

\* ------------------------------------------------- sources: statements
\* Statements that are valid one by one, written without the final `;`.
StatementPool ==
    << <<"C","R","E","A","T","E"," ","T","A","B","L","E"," ","t","(","a",")">>,
       <<"C","R","E","A","T","E"," ","T","A","B","L","E"," ","u","(","b"," ","T","E","X","T"," ","N","O","T"," ","N","U","L","L",","," ","c"," ","I","N","T","E","G","E","R",")">>,
       <<"C","R","E","A","T","E"," ","I","N","D","E","X"," ","i"," ","O","N"," ","t","(","a",")">>,
       <<"C","R","E","A","T","E"," ","I","N","D","E","X"," ","j"," ","O","N"," ","t","(","a",")"," ","W","H","E","R","E"," ","a"," ",">"," ","1">>,
       <<"S","E","L","E","C","T"," ","1">> >>

\* What stands between two statements: `;`, `;` and a blank, or only a blank.
Semicolons == {<<";">>, <<";", " ">>}
Separators == Semicolons \cup {<<" ">>}

\* What follows the last statement: nothing, the final `;`, or stray tokens.
StrayTails == {<<" ","x",";">>, <<" ","2">>, <<" ","x">>}
Tails == {<<>>, <<";">>} \cup StrayTails

\* A first token that begins no statement.
Heads == {<<"D","R","O","P">>, <<"x">>, <<"1">>, <<";">>, <<"(">>}

RECURSIVE JoinParts(_, _)
\* The statements parts (indices into StatementPool) joined by sep
JoinParts(parts, sep) ==
    IF parts = <<>> THEN <<>>
    ELSE IF Len(parts) = 1 THEN StatementPool[parts[1]]
    ELSE StatementPool[parts[1]] \o sep \o JoinParts(Tail(parts), sep)

ProgramText(in) ==
    LET body == JoinParts(in.parts, in.sep) \o in.tail
    IN  IF in.head = <<>> THEN body
        ELSE IF body = <<>> THEN in.head
        ELSE in.head \o <<" ">> \o body

ProgramInputs ==
    {[kind |-> "program", head |-> <<>>, parts |-> ps, sep |-> s, tail |-> t] :
        ps \in SeqsUpTo(DOMAIN StatementPool, MaxStatements) \ {<<>>},
        s \in Separators, t \in Tails}
    \cup
    {[kind |-> "program", head |-> h, parts |-> ps, sep |-> <<";">>, tail |-> t] :
        h \in Heads \cup {<<>>}, ps \in SeqsUpTo(DOMAIN StatementPool, 1) ,
        t \in Tails}

\* --------------------------------------------------- sources: columns
ColumnPool ==
    { <<"n","a","m","e">>, <<"n","a","m","e"," ","T","E","X","T">>, <<"n","a","m","e"," ","T","E","X","T"," ","N","O","T"," ","N","U","L","L">>, <<"x"," ","V","A","R","C","H","A","R","(","1","0",")">>,
      <<"i","d"," ","I","N","T","E","G","E","R"," ","P","R","I","M","A","R","Y"," ","K","E","Y">>, <<"n"," ","I","N","T"," ","D","E","F","A","U","L","T"," ","5">>, <<"c"," ","U","N","I","Q","U","E">>,
      <<"k"," ","R","E","F","E","R","E","N","C","E","S"," ","t","(","a",")">> }

\* Blanks only
BlankTrailers == {<<>>, <<" ">>, <<" ", "\n">>}
\* At least one token that cannot belong to the definition before it
TokenTrailers == {<<",">>, <<" ",")">>, <<";">>, <<" ","5">>, <<","," ","a","g","e"," ","I","N","T","E","G","E","R">>, <<" ",")"," ","x">>, <<" ",","," ">>}

ColumnInputs ==
    {[kind |-> "column", definition |-> d, trailer |-> t] :
        d \in ColumnPool, t \in BlankTrailers \cup TokenTrailers}

ColumnText(in) == in.definition \o in.trailer

\* ----------------------------------------------- sources: expressions
\* The binary operators: the keys of PRECEDENCE but the call parenthesis.
Operators ==
    { <<"O","R">>, <<"A","N","D">>, <<"=">>, <<"=","=">>, <<"!","=">>, <<"<",">">>, <<"I","S">>, <<"I","N">>, <<"L","I","K","E">>, <<"G","L","O","B">>,
      <<"M","A","T","C","H">>, <<"R","E","G","E","X","P">>, <<"<">>, <<"<","=">>, <<">">>, <<">","=">>, <<"<","<">>, <<">",">">>, <<"&">>, <<"|">>,
      <<"+">>, <<"-">>, <<"*">>, <<"/">>, <<"%">>, <<"|","|">> }

\* Operands: an integer literal or an identifier: [node, value]
Operand(i) == [node |-> "Integer", value |-> i]
Name(t) == [node |-> "Identifier", value |-> t]

OperandText(e) == IF e.node = "Integer" THEN str_int(e.value) ELSE e.value

\* `a op1 b op2 c`
ChainInputs ==
    {[kind |-> "chain", a |-> lhs, op1 |-> op1, b |-> Operand(2), op2 |-> op2,
      c |-> rhs] :
        lhs \in {Operand(1), Name(<<"x">>)}, op1 \in Operators, op2 \in Operators,
        rhs \in {Operand(3), Name(<<"y">>)}}

ChainText(in) ==
    <<"S","E","L","E","C","T"," ">> \o OperandText(in.a) \o <<" ">> \o in.op1 \o <<" ">>
        \o OperandText(in.b) \o <<" ">> \o in.op2 \o <<" ">> \o OperandText(in.c)

RECURSIVE Shapes(_)
\* The operands of the call sources, by depth of nesting: an integer
\* (args = <<>>, call = FALSE), f(e) and g(1, e) for e of the depth below.
Shapes(d) ==
    IF d = 0 THEN {[call |-> FALSE, args |-> <<>>]}
    ELSE LET S == Shapes(d - 1)
         IN  S \cup {[call |-> TRUE, args |-> <<e>>] : e \in S}
               \cup {[call |-> TRUE,
                      args |-> <<[call |-> FALSE, args |-> <<>>], e>>] : e \in S}

FunctionName(shape) == IF Len(shape.args) = 1 THEN <<"f","o","o">> ELSE <<"b","a","r">>

RECURSIVE ShapeText(_)
RECURSIVE ShapeTexts(_)
ShapeTexts(shapes) ==
    IF shapes = <<>> THEN <<>>
    ELSE <<ShapeText(Head(shapes))>> \o ShapeTexts(Tail(shapes))

ShapeText(shape) ==
    IF ~shape.call THEN <<"1">>
    ELSE FunctionName(shape) \o <<"(">>
             \o Join(<<",", " ">>, ShapeTexts(shape.args)) \o <<")">>

\* `L op R`
CallInputs ==
    {[kind |-> "call", left |-> l, op |-> op, right |-> r] :
        l \in Shapes(MaxDepth), op \in Operators, r \in Shapes(MaxDepth)}

CallText(in) ==
    <<"S","E","L","E","C","T"," ">> \o ShapeText(in.left) \o <<" ">> \o in.op \o <<" ">>
        \o ShapeText(in.right)

\* ---------------------------------------------- sources: table bodies
\* The items of a CREATE TABLE body: columns, then table-level constraints.
ColumnItems ==
    { <<"a">>, <<"b"," ","I","N","T","E","G","E","R"," ","P","R","I","M","A","R","Y"," ","K","E","Y"," ","O","N"," ","C","O","N","F","L","I","C","T"," ","R","O","L","L","B","A","C","K">>,
      <<"c"," ","T","E","X","T"," ","N","O","T"," ","N","U","L","L">>, <<"d"," ","U","N","I","Q","U","E"," ","O","N"," ","C","O","N","F","L","I","C","T"," ","I","G","N","O","R","E">> }
ConstraintItems ==
    { <<"P","R","I","M","A","R","Y"," ","K","E","Y"," ","(","a",")">>, <<"F","O","R","E","I","G","N"," ","K","E","Y"," ","(","a",")"," ","R","E","F","E","R","E","N","C","E","S"," ","u","(","b",")">>,
      <<"P","R","I","M","A","R","Y"," ","K","E","Y"," ","(","a",","," ","c",")"," ","O","N"," ","C","O","N","F","L","I","C","T"," ","F","A","I","L">> }

TableInputs ==
    {[kind |-> "table", items |-> items] :
        items \in SeqsUpTo(ColumnItems \cup ConstraintItems, MaxItems)}

TableText(in) ==
    <<"C","R","E","A","T","E"," ","T","A","B","L","E"," ","t","(">> \o Join(<<",", " ">>, in.items) \o <<")">>

\* ------------------------------------------------------------ actions
\* The call left the lexer L in a loop that repeats the same turn for ever
Looping(L) == L.exc.node = "NonTermination"

\* Where the run stands after a call that left the lexer L: in a loop, ended
\* by the exception, or at `next`
After(L, next) ==
    IF Looping(L) THEN "looping" ELSE IF Failed(L) THEN "raised" ELSE next

\* parse(program): Lexer(program), Parser(lexer), then Parser.parse
Start(in, text) ==
    /\ input = in
    /\ lexer = Parser(Lexer(text), FALSE)
    /\ statements = <<>>
    /\ column = None
    /\ rendered = <<>>
    /\ first = <<>>
    /\ pass = 1
    /\ call = None
    /\ pc = IF Failed(lexer) THEN "raised" ELSE "parsing"

Init == \E in \in ProgramInputs : Start(in, ProgramText(in))

InitColumn == \E in \in ColumnInputs : Start(in, ColumnText(in))

InitExpr ==
    \/ \E in \in ChainInputs : Start(in, ChainText(in))
    \/ \E in \in CallInputs : Start(in, CallText(in))

InitTable == \E in \in TableInputs : Start(in, TableText(in))

\* One turn of the loop of Parser.parse: a statement, then the `;` after it.
ParseStatement ==
    /\ pc = "parsing"
    /\ ~done(lexer)
    /\ LET r == Parser_parse_iteration(lexer, statements)
       IN  /\ lexer' = r.lx
           /\ statements' = r.val
           /\ pc' = After(r.lx, "parsing")
    /\ UNCHANGED <<input, column, rendered, first, pass, call>>

\* The loop of Parser.parse ends: the lexer is done, the list is returned.
ParseReturn ==
    /\ pc = "parsing"
    /\ done(lexer)
    /\ pc' = "returned"
    /\ UNCHANGED <<input, lexer, statements, column, rendered, first, pass, call>>

\* parse_column(column_string), from the Parser on
ParseColumn ==
    /\ pc = "parsing"
    /\ LET r == Parser_parse_column(lexer)
       IN  /\ lexer' = r.lx
           /\ column' = r.val
           /\ pc' = After(r.lx, "returned")
    /\ UNCHANGED <<input, statements, rendered, first, pass, call>>

\* One more turn of a `while True` loop that cannot end: the lexer is at
\* the end of the input, advance() gives the EOF token again, nothing changes.
LoopTurn ==
    /\ pc = "looping"
    /\ UNCHANGED vars

\* str(statement) for each statement returned
Render ==
    /\ pc = "returned"
    /\ statements # <<>>
    /\ rendered' = [i \in DOMAIN statements |-> Node_str(statements[i])]
    /\ pc' = "rendered"
    /\ UNCHANGED <<input, lexer, statements, column, first, pass, call>>

\* parse(str(statement)) for the one statement of the first pass
Reparse ==
    /\ pc = "rendered"
    /\ pass = 1
    /\ Len(statements) = 1
    /\ rendered[1].exc = None
    /\ lexer' = Parser(Lexer(rendered[1].val), FALSE)
    /\ statements' = <<>>
    /\ first' = rendered[1].val
    /\ rendered' = <<>>
    /\ pass' = 2
    /\ pc' = IF Failed(lexer') THEN "raised" ELSE "parsing"
    /\ UNCHANGED <<input, column, call>>

Next == ParseStatement \/ ParseReturn \/ Render \/ Reparse

NextColumn == ParseColumn

NextExpr == ParseStatement \/ ParseReturn

Spec == Init /\ [][Next]_vars

SpecColumn == InitColumn /\ [][NextColumn]_vars

SpecExpr == InitExpr /\ [][NextExpr]_vars

SpecTable == InitTable /\ [][Next]_vars

\* The run is over: nothing of it is left to do.
Ended == pc \in {"returned", "raised", "rendered"}


\* =========================================================== the claims
\* The exception a run ended with is lexer.exc; a syntax error is the
\* class SQLiteParserError.
SyntaxError == pc = "raised" /\ lexer.exc.node = "SQLiteParserError"

\* A source of the first pass made of the statements input.parts alone
Statements(n) ==
    /\ input.kind = "program"
    /\ input.head = <<>>
    /\ Len(input.parts) = n
    /\ pass = 1

\* The node parse gives for statement p of StatementPool written on its
\* own with its final `;`
StatementNode(p) == parse(StatementPool[p] \o <<";">>, FALSE).val[1]

\* ------------------------------------------------------------------ C1
\* C1: parse of a source made of N >= 2 statements, each valid on its own
\* and separated by `;`, succeeds and returns exactly the N statement
\* nodes in source order.
C1_SeparatedStatementsReturnedInOrder ==
    (Statements(Len(input.parts)) /\ Len(input.parts) >= 2
        /\ input.sep \in Semicolons
        /\ input.tail \in {<<>>, <<";">>} /\ Ended)
    => /\ pc # "raised"
       /\ statements = [i \in DOMAIN input.parts |-> StatementNode(input.parts[i])]

\* ------------------------------------------------------------------ C2
\* C2: when a valid statement is directly followed by a token that is not
\* `;` (a second statement with only a blank between them, or stray tokens
\* after the last statement), parse fails with a syntax error: no token is
\* skipped silently.
C2_TokenAfterStatementIsAnError ==
    (/\ input.kind = "program" /\ input.head = <<>> /\ pass = 1 /\ Ended
     /\ \/ Len(input.parts) = 2 /\ input.sep = <<" ">>
        \/ Len(input.parts) >= 1 /\ input.tail \in StrayTails)
    => SyntaxError

\* ------------------------------------------------------------------ C3
\* C3: parse_column fails with the trailing-input syntax error whenever at
\* least one token follows a complete column definition, and returns a
\* Column only when nothing but blanks follows it.
C3_TrailingTokenIsAnError ==
    (input.kind = "column" /\ Ended)
    => IF input.trailer \in TokenTrailers
       THEN /\ SyntaxError
            /\ lexer.exc.msg = "trailing input"
       ELSE /\ pc = "returned"
            /\ column.node = "Column"

\* ------------------------------------------------------------------ C4
\* C4: the final `;` is optional: parse of one valid statement written
\* without it succeeds and returns the node that parse returns for the
\* same text with the final `;`.
C4_FinalSemicolonIsOptional ==
    (Statements(1) /\ input.tail = <<>> /\ Ended)
    => /\ pc # "raised"
       /\ ~Failed(parse(ProgramText(input) \o <<";">>, FALSE).lx)
       /\ statements = parse(ProgramText(input) \o <<";">>, FALSE).val

\* ------------------------------------------------------------------ C5
\* C5: round trip of CREATE TABLE: for the CreateTableStatement s that
\* parse returned, str(s) is a text, parse of it succeeds and returns one
\* statement s2, and str(s2) = str(s).
C5_CreateTableRoundTrip ==
    input.kind = "table"
    => /\ (pass = 1 /\ pc = "rendered") => rendered[1].exc = None
       /\ pass = 2 => pc # "raised"
       /\ (pass = 2 /\ pc = "returned") => Len(statements) = 1
       /\ (pass = 2 /\ pc = "rendered")
              => rendered = <<[exc |-> None, val |-> first]>>

\* ------------------------------------------------------------------ C6
\* C6: rendering is total over what parse returns: str() of every
\* statement node parse produced gives a text, it does not fail.
C6_RenderingIsTotal ==
    (input.kind = "program" /\ pc = "rendered")
    => \A i \in DOMAIN rendered : rendered[i].exc = None

\* ------------------------------------------------------------------ C7
\* C7: for every non-empty source whose first token is not CREATE or
\* SELECT, parse fails with a syntax error and never returns a list,
\* however many tokens the source has.
C7_OtherFirstTokenIsAnError ==
    (input.kind = "program" /\ input.head # <<>> /\ pass = 1 /\ Ended)
    => SyntaxError

\* ----------------------------------------------------- expected trees
InfixNode(operator, left, right) ==
    [node |-> "Infix", operator |-> operator, left |-> left, right |-> right]

\* What parse returns for `SELECT e`, e standing for the tree expression
SelectOf(expression) ==
    <<[node |-> "SelectStatement", columns |-> <<expression>>]>>

\* The rank of the binary operator written op
Rank(op) == PRECEDENCE[Str(op)]

\* The scanner makes one token of the text op, its value op
ScansAsOneToken(op) ==
    LET L == Lexer(op)
    IN  ~Failed(L) /\ done(L) /\ L.current_token.value = op

RECURSIVE ExpectedNode(_)
\* The tree of an operand of the call sources
ExpectedNode(shape) ==
    IF ~shape.call THEN Operand(1)
    ELSE Call(Name(FunctionName(shape)),
              [i \in DOMAIN shape.args |-> ExpectedNode(shape.args[i])],
              FALSE, FALSE)

\* ------------------------------------------------------------------ C8
\* C8: for any two binary operators of different rank and any operands,
\* `a op1 b op2 c` parses to Infix(op1, a, Infix(op2, b, c)) when op1 ranks
\* below op2 and to Infix(op2, Infix(op1, a, b), c) when op2 ranks below
\* op1.
C8_PrecedenceShapesTheTree ==
    (input.kind = "chain" /\ Rank(input.op1) # Rank(input.op2) /\ Ended)
    => /\ pc = "returned"
       /\ statements =
              IF Rank(input.op1) < Rank(input.op2)
              THEN SelectOf(InfixNode(input.op1, input.a,
                                      InfixNode(input.op2, input.b, input.c)))
              ELSE SelectOf(InfixNode(input.op2,
                                      InfixNode(input.op1, input.a, input.b),
                                      input.c))

\* The same for the operators the scanner makes one token of: all of the
\* table but ==, <>, << and >>.
C8_PrecedenceAmongScannedOperators ==
    (input.kind = "chain" /\ ScansAsOneToken(input.op1)
        /\ ScansAsOneToken(input.op2))
    => C8_PrecedenceShapesTheTree

IsColumnItem(item) == item \in ColumnItems
IsConstraintItem(item) == item \in ConstraintItems

\* In items a column stands somewhere after a table-level constraint
ColumnAfterConstraint(items) ==
    \E i, j \in DOMAIN items :
        i < j /\ IsConstraintItem(items[i]) /\ IsColumnItem(items[j])

\* The node of a column item, parsed on its own
ColumnNode(item) == parse_column(item).val

\* The node of a constraint item, parsed as the only item of a table
ConstraintNode(item) ==
    parse(<<"C","R","E","A","T","E"," ","T","A","B","L","E"," ","t","(">> \o item \o <<")">>, FALSE).val[1].constraints[1]

\* C10: in a CREATE TABLE body a column definition after a table-level
\* constraint makes parse fail with a syntax error; a CreateTableStatement
\* that parse returns has its columns before its constraints in the
\* source, each list in source order.
C10_ColumnsPrecedeConstraints ==
    (input.kind = "table" /\ pass = 1 /\ Ended)
    => IF ColumnAfterConstraint(input.items)
       THEN SyntaxError
       ELSE /\ pc # "raised"
            /\ Len(statements) = 1
            /\ statements[1].node = "CreateTableStatement"
            /\ statements[1].columns =
                   LET cs == SelectSeq(input.items, IsColumnItem)
                   IN  [i \in DOMAIN cs |-> ColumnNode(cs[i])]
            /\ statements[1].constraints =
                   LET cs == SelectSeq(input.items, IsConstraintItem)
                   IN  [i \in DOMAIN cs |-> ConstraintNode(cs[i])]

\* A column after a table-level constraint was refused.
C10_ColumnAfterConstraintRefused ==
    /\ input.kind = "table"
    /\ pass = 1
    /\ ColumnAfterConstraint(input.items)
    /\ SyntaxError
    /\ lexer.current_token.type \in {"COMMA", "RIGHT_PARENTHESIS"}

\* ================================================= columns, part by part
\* A column written as a name, a type or none, then clauses; given to
\* parse_column as it is, or to parse as the only column of a table.
MaxClauses == 2

Apis == {"parse", "parse_column"}

TypePool == {<<>>, <<"I","N","T","E","G","E","R">>, <<"V","A","R","C","H","A","R","(","1","0",")">>}
NullClause == <<"N","U","L","L">>
DefaultClauses == {<<"D","E","F","A","U","L","T"," ","5">>, <<"D","E","F","A","U","L","T"," ","N","U","L","L">>}
ConstraintClauses ==
    { <<"N","O","T"," ","N","U","L","L">>, <<"U","N","I","Q","U","E">>, <<"P","R","I","M","A","R","Y"," ","K","E","Y">>, <<"C","H","E","C","K"," ","(","a"," ",">"," ","0",")">>, <<"R","E","F","E","R","E","N","C","E","S"," ","t","(","b",")">> }

\* The words of a column joined by one blank each
Words(words) == Join(<<" ">>, SelectSeq(words, LAMBDA w : w # <<>>))

\* The source given to the api: the column, or the table of that one column
ApiText(api, column_string) ==
    IF api = "parse_column" THEN column_string
    ELSE <<"C","R","E","A","T","E"," ","T","A","B","L","E"," ","t","(">> \o column_string \o <<")">>

DefinitionInputs ==
    {[kind |-> "definition", api |-> api, type |-> type, clauses |-> clauses] :
        api \in Apis, type \in TypePool,
        clauses \in SeqsUpTo({NullClause} \cup DefaultClauses
                                 \cup ConstraintClauses, MaxClauses)}

DefinitionText(in) ==
    ApiText(in.api, Words(<<<<"a">>, in.type>> \o in.clauses))

InitDefinition == \E in \in DefinitionInputs : Start(in, DefinitionText(in))

\* parse_column(column_string) for the sources given to parse_column
ParseColumnSource == input.api = "parse_column" /\ ParseColumn

\* parse(program) for the sources given to parse
ParseTableSource == input.api = "parse" /\ (ParseStatement \/ ParseReturn)

NextApi == ParseColumnSource \/ ParseTableSource

SpecDefinition == InitDefinition /\ [][NextApi]_vars

\* The api returned
Returned == pc = "returned"

\* The Column the api returned
ReturnedColumn ==
    IF input.api = "parse_column" THEN column ELSE statements[1].columns[1]

\* ----------------------------------------------------------------- C11
\* The column of the source was written with nothing but its name and
\* NULL keywords.
WrittenBare(in) ==
    in.type = <<>> /\ \A i \in DOMAIN in.clauses : in.clauses[i] = NullClause

\* C11: for every Column returned by parse or parse_column, definition is
\* None if and only if the column was written with no type, no DEFAULT
\* clause and no constraint (a bare NULL keyword does not count);
\* otherwise definition is a ColumnDefinition whose type, default and
\* constraints are not all empty.
C11_DefinitionIsNoneIffNothingWritten ==
    (input.kind = "definition" /\ Returned)
    => /\ ReturnedColumn.node = "Column"
       /\ IF WrittenBare(input)
          THEN ReturnedColumn.definition = None
          ELSE /\ ReturnedColumn.definition.node = "ColumnDefinition"
               /\ \/ ReturnedColumn.definition.type # None
                  \/ ReturnedColumn.definition.default # None
                  \/ ReturnedColumn.definition.constraints # <<>>

\* A column of a table written with nothing but NULL keywords after its
\* name was returned without definition.
C11_ColumnOfNullKeywordsOnly ==
    /\ input.kind = "definition"
    /\ input.api = "parse"
    /\ Returned
    /\ Len(input.clauses) >= 2
    /\ WrittenBare(input)
    /\ ReturnedColumn.definition = None

\* ============================================== foreign key clauses
\* `REFERENCES u(b)` followed by ON DELETE and ON UPDATE clauses, as the
\* constraint of a column given to parse_column or as the table-level
\* FOREIGN KEY constraint of a table given to parse.
MaxActions == 3

\* The actions as written and the member of OnDelete each stands for
ActionPool ==
    { [text |-> <<"S","E","T"," ","N","U","L","L">>, member |-> "SET_NULL"],
      [text |-> <<"S","E","T"," ","D","E","F","A","U","L","T">>, member |-> "SET_DEFAULT"],
      [text |-> <<"C","A","S","C","A","D","E">>, member |-> "CASCADE"],
      [text |-> <<"R","E","S","T","R","I","C","T">>, member |-> "RESTRICT"],
      [text |-> <<"N","O"," ","A","C","T","I","O","N">>, member |-> "NO_ACTION"] }

\* The clauses of the sources: every action for ON DELETE, an action of
\* one word and one of two words for ON UPDATE.
OnClauses ==
    {[direction |-> "DELETE", action |-> a] : a \in ActionPool}
    \cup {[direction |-> "UPDATE", action |-> a] :
              a \in {b \in ActionPool :
                         b.member \in {"RESTRICT", "NO_ACTION"}}}

OnClauseText(clause) ==
    IF clause.direction = "DELETE"
    THEN <<"O","N"," ","D","E","L","E","T","E"," ">> \o clause.action.text
    ELSE <<"O","N"," ","U","P","D","A","T","E"," ">> \o clause.action.text

ForeignKeyInputs ==
    {[kind |-> "foreign key", api |-> api, clauses |-> clauses] :
        api \in Apis, clauses \in SeqsUpTo(OnClauses, MaxActions)}

ForeignKeyText(in) ==
    LET clause ==
            Words(<<<<"R","E","F","E","R","E","N","C","E","S"," ","u","(","b",")">>>>
                      \o [i \in DOMAIN in.clauses |-> OnClauseText(in.clauses[i])])
    IN  IF in.api = "parse_column" THEN <<"a"," ">> \o clause
        ELSE <<"C","R","E","A","T","E"," ","T","A","B","L","E"," ","t","(","a",","," ","F","O","R","E","I","G","N"," ","K","E","Y"," ","(","a",")"," ">> \o clause \o <<")">>

InitForeignKey == \E in \in ForeignKeyInputs : Start(in, ForeignKeyText(in))

SpecForeignKey == InitForeignKey /\ [][NextApi]_vars

\* The constraint the api returned: the first of the column, or of the table
ReturnedConstraint ==
    IF input.api = "parse_column" THEN column.definition.constraints[1]
    ELSE statements[1].constraints[1]

RECURSIVE LastAction(_, _)
\* The action of the last clause of clauses written for direction, None
\* when there is none
LastAction(clauses, direction) ==
    IF clauses = <<>> THEN None
    ELSE IF clauses[Len(clauses)].direction = direction
    THEN Enum("OnDelete", clauses[Len(clauses)].action.member)
    ELSE LastAction(SubSeq(clauses, 1, Len(clauses) - 1), direction)

\* ----------------------------------------------------------------- C12
\* C12: a foreign key clause with any number of ON DELETE and ON UPDATE
\* clauses is parsed without error; the constraint's on_delete is the
\* action of the last ON DELETE clause and its on_update the action of the
\* last ON UPDATE clause, None for a direction that was not written: a
\* clause for one direction leaves the value of the other as it was.
C12_LastClauseOfEachDirectionWins ==
    (input.kind = "foreign key" /\ Ended)
    => /\ Returned
       /\ ReturnedConstraint.node = "ForeignKeyConstraint"
       /\ ReturnedConstraint.on_delete = LastAction(input.clauses, "DELETE")
       /\ ReturnedConstraint.on_update = LastAction(input.clauses, "UPDATE")

\* Two ON DELETE clauses of different actions with an ON UPDATE clause
\* between them were parsed: the second ON DELETE action is the one kept.
C12_DuplicateAroundOtherDirection ==
    /\ input.kind = "foreign key"
    /\ Returned
    /\ Len(input.clauses) = 3
    /\ input.clauses[1].direction = "DELETE"
    /\ input.clauses[2].direction = "UPDATE"
    /\ input.clauses[3].direction = "DELETE"
    /\ input.clauses[1].action # input.clauses[3].action
    /\ ReturnedConstraint.on_delete
           = Enum("OnDelete", input.clauses[3].action.member)
    /\ ReturnedConstraint.on_update
           = Enum("OnDelete", input.clauses[2].action.member)

\* ====================================== table constraints over columns
\* A table of some columns and then one table-level constraint written as
\* a keyword and a list of column names: `PRIMARY KEY (c1, c2)` or
\* `UNIQUE (c1, c2)`.
MaxNames == 2

KeyedColumns == {<<"c","1"," ","t","e","x","t">>, <<"c","2"," ","t","e","x","t">>, <<"c","3">>}
KeyedNames == {<<"c","1">>, <<"c","2">>, <<"c","3">>}
KeyedKeywords == {<<"P","R","I","M","A","R","Y"," ","K","E","Y">>, <<"U","N","I","Q","U","E">>}

KeyedTableInputs ==
    {[kind |-> "keyed table", columns |-> columns, keyword |-> keyword,
      names |-> names] :
        columns \in SeqsUpTo(KeyedColumns, MaxNames) \ {<<>>},
        keyword \in KeyedKeywords,
        names \in SeqsUpTo(KeyedNames, MaxNames) \ {<<>>}}

KeyedTableText(in) ==
    <<"C","R","E","A","T","E"," ","T","A","B","L","E"," ","t","1"," ","(">> \o Join(<<",", " ">>, in.columns) \o <<",", " ">>
        \o in.keyword \o <<" ","(">> \o Join(<<",", " ">>, in.names) \o <<")",")">>

InitKeyedTable == \E in \in KeyedTableInputs : Start(in, KeyedTableText(in))

SpecKeyedTable == InitKeyedTable /\ [][NextExpr]_vars

\* ----------------------------------------------------------------- C13
\* C13: a table-level `UNIQUE (c1, c2, ...)` entry after the columns of a
\* CREATE TABLE body is parsed as a table constraint holding exactly those
\* column names in order, a UniqueTableConstraint with on_conflict None
\* when no ON CONFLICT follows; it stands in the statement's constraints
\* and not in its columns.
C13_TableUniqueConstraintParsed ==
    (input.kind = "keyed table" /\ input.keyword = <<"U","N","I","Q","U","E">> /\ Ended)
    => /\ Returned
       /\ Len(statements) = 1
       /\ statements[1].node = "CreateTableStatement"
       /\ statements[1].columns
              = [i \in DOMAIN input.columns |-> ColumnNode(input.columns[i])]
       /\ statements[1].constraints
              = <<[node |-> "UniqueTableConstraint", columns |-> input.names,
                   on_conflict |-> None]>>

\* ======================================================== verbatim mode
\* Sources parsed with verbatim = True: an expression in one of the places
\* that take one (the WHERE clause of an index, a DEFAULT, CHECK or AS
\* parenthesis of a column), blanks after it, then what ends it.
VerbatimContexts == {"where", "default", "check", "generated"}

\* Expressions whose parentheses are balanced, written without blanks at
\* either end
BalancedExpressions ==
    { <<"c"," ","I","S"," ","N","O","T"," ","N","U","L","L">>, <<"c">>, <<"c"," ",">"," ","1">>, <<"(","c"," ",">"," ","1",")"," ","A","N","D"," ","f","(","c",","," ","2",")">>, <<"f","(","(","c",")",")">> }
\* An opening parenthesis that is never closed
OpenExpressions == { <<"(","c">>, <<"f","(","c",","," ","2">>, <<"(","(","c"," ",">"," ","1",")">> }
\* A closing parenthesis that closes nothing
ClosedExpressions == { <<"c",")">>, <<"(","c",")",")">>, <<"c"," ",">"," ","1",")"," ","A","N","D"," ","c">> }

Paddings == {<<>>, <<" ">>, <<" ", " ">>}
\* The end of the source: the end of input, or the final `;`
Ends == {<<>>, <<";">>}

VerbatimInputs ==
    {[kind |-> "verbatim", context |-> context, expression |-> e,
      padding |-> p, end |-> end] :
        context \in VerbatimContexts,
        e \in BalancedExpressions \cup OpenExpressions,
        p \in Paddings, end \in Ends}
    \cup
    {[kind |-> "verbatim", context |-> "where", expression |-> e,
      padding |-> p, end |-> end] :
        e \in ClosedExpressions, p \in Paddings, end \in Ends}

VerbatimText(in) ==
    LET e == in.expression \o in.padding
    IN  CASE in.context = "where" ->
                 <<"C","R","E","A","T","E"," ","I","N","D","E","X"," ","i"," ","O","N"," ","t","(","c",")"," ","W","H","E","R","E"," ">> \o e \o in.end
          [] in.context = "default" ->
                 <<"C","R","E","A","T","E"," ","T","A","B","L","E"," ","t","(","c"," ","D","E","F","A","U","L","T"," ","(">> \o e \o <<")",")">> \o in.end
          [] in.context = "check" ->
                 <<"C","R","E","A","T","E"," ","T","A","B","L","E"," ","t","(","c"," ","C","H","E","C","K"," ","(">> \o e \o <<")",")">> \o in.end
          [] in.context = "generated" ->
                 <<"C","R","E","A","T","E"," ","T","A","B","L","E"," ","t","(","c"," ","A","S"," ","(">> \o e \o <<")",")">> \o in.end

\* parse(program, verbatim=True)
StartVerbatim(in, text) ==
    /\ input = in
    /\ lexer = Parser(Lexer(text), TRUE)
    /\ statements = <<>>
    /\ column = None
    /\ rendered = <<>>
    /\ first = <<>>
    /\ pass = 1
    /\ call = None
    /\ pc = IF Failed(lexer) THEN "raised" ELSE "parsing"

InitVerbatim == \E in \in VerbatimInputs : StartVerbatim(in, VerbatimText(in))

SpecVerbatim == InitVerbatim /\ [][NextExpr]_vars

\* The node the expression of the source was parsed to
VerbatimNode ==
    CASE input.context = "where" -> statements[1].where
      [] input.context = "default" -> statements[1].columns[1].definition.default
      [] input.context = "check" ->
             statements[1].columns[1].definition.constraints[1].expr
      [] input.context = "generated" ->
             statements[1].columns[1].definition.constraints[1].expression

\* ----------------------------------------------------------------- C14
\* C14: in verbatim mode the String captured is the exact source text from
\* the first character of the expression up to, and not including,
\* whichever comes first of the matching unnested `)`, the `;` and the end
\* of input, without the blanks at its end; so the WHERE clause of
\* `CREATE INDEX i ON t(c) WHERE c IS NOT NULL` is "c IS NOT NULL" with
\* and without the final `;`.
C14_VerbatimTextIsCaptured ==
    (/\ input.kind = "verbatim"
     /\ input.expression \in BalancedExpressions
     /\ Ended)
    => /\ Returned
       /\ Len(statements) = 1
       /\ VerbatimNode = [node |-> "String", value |-> input.expression]

\* ----------------------------------------------------------------- C15
\* C15: in verbatim mode an expression whose parentheses are unbalanced (a
\* `(` not closed before the final `;` or the end of input, or in the
\* WHERE clause of an index a `)` that closes nothing) makes parse fail
\* with a syntax error: no statement is returned for it.
C15_UnbalancedParenthesesRefused ==
    (/\ input.kind = "verbatim"
     /\ input.expression \in OpenExpressions \cup ClosedExpressions
     /\ Ended)
    => SyntaxError /\ statements = <<>>

\* ============================================================= literals
\* A literal given to parse as the whole source (the Lexer scans it when it
\* is made) or as the one column of a SELECT.
Positions == {"first", "operand"}

PositionText(position, literal) ==
    IF position = "first" THEN literal ELSE <<"S","E","L","E","C","T"," ">> \o literal

\* ---- blob literals: X or x, a quote, a body, and the quote that closes
MaxBody == 4

\* Hexadecimal digits of the bodies and what each is worth
HexPool ==
    [d \in {"4", "a", "F"} |-> IF d = "4" THEN 4 ELSE IF d = "a" THEN 10 ELSE 15]
\* A character that is no hexadecimal digit
NonHex == {"g"}

BlobInputs ==
    {[kind |-> "blob", position |-> position, x |-> x, body |-> body,
      closed |-> closed] :
        position \in Positions, x \in {"X", "x"},
        body \in SeqsUpTo(DOMAIN HexPool \cup NonHex, MaxBody),
        closed \in BOOLEAN}

BlobText(in) ==
    PositionText(in.position,
        <<in.x, "'">> \o in.body \o (IF in.closed THEN <<"'">> ELSE <<>>))

\* ---- delimited literals: a delimiter, pieces, and the delimiter that closes
MaxPieces == 3

\* The delimiter that closes a literal opened by open
Closing(open) == IF open = "[" THEN "]" ELSE open

\* The pieces of a literal: a character that stands for itself, or "dd" for
\* the closing delimiter written twice
Pieces == {"a", "\\", "dd"}
\* The other delimiters, which stand for themselves in a literal
Foreign(open) == IF open = "'" THEN "\"" ELSE "'"

PieceText(open, piece) ==
    IF piece = "dd" THEN <<Closing(open), Closing(open)>> ELSE <<piece>>

RECURSIVE PiecesText(_, _)
PiecesText(open, pieces) ==
    IF pieces = <<>> THEN <<>>
    ELSE PieceText(open, Head(pieces)) \o PiecesText(open, Tail(pieces))

\* The characters the pieces stand for: one delimiter for each doubled one
PiecesValue(open, pieces) ==
    [i \in DOMAIN pieces |->
        IF pieces[i] = "dd" THEN Closing(open) ELSE pieces[i]]

\* The literals opened by open
DelimitedBy(open) ==
    {[kind |-> "delimited", position |-> position, open |-> open,
      pieces |-> pieces, closed |-> closed] :
        position \in Positions,
        pieces \in SeqsUpTo(Pieces \cup {Foreign(open)}, MaxPieces),
        closed \in BOOLEAN}

DelimitedInputs == UNION {DelimitedBy(open) : open \in {"'", "\"", Backtick, "["}}

DelimitedText(in) ==
    PositionText(in.position,
        <<in.open>> \o PiecesText(in.open, in.pieces)
            \o (IF in.closed THEN <<Closing(in.open)>> ELSE <<>>))

InitLiteral ==
    \/ \E in \in BlobInputs : Start(in, BlobText(in))
    \/ \E in \in DelimitedInputs : Start(in, DelimitedText(in))

SpecLiteral == InitLiteral /\ [][NextExpr]_vars

\* ----------------------------------------------------------------- C16
\* The body is an even number of hexadecimal digits and the quote closes it
WellFormedBlob(in) ==
    /\ in.closed
    /\ Len(in.body) % 2 = 0
    /\ \A i \in DOMAIN in.body : in.body[i] \in DOMAIN HexPool

\* The bytes a body of 2n hexadecimal digits stands for
BlobBytes(body) ==
    [i \in 1..(Len(body) \div 2) |->
        16 * HexPool[body[2 * i - 1]] + HexPool[body[2 * i]]]

\* C16: `X'` or `x'`, 2n hexadecimal digits and a closing `'` are scanned
\* as one Blob token whose value is the n bytes, byte i being
\* 16 * hexval(d[2i]) + hexval(d[2i+1]); a body with an odd number of
\* digits, with a character that is no hexadecimal digit, or without the
\* closing `'` fails with a syntax error.
C16_BlobLiteralScanned ==
    input.kind = "blob"
    => IF WellFormedBlob(input)
       THEN /\ pc # "raised"
            /\ input.position = "first"
                   => /\ lexer.current_token.type = "BLOB"
                      /\ lexer.current_token.value = BlobBytes(input.body)
                      /\ done(lexer)
            /\ (input.position = "operand" /\ Returned)
                   => statements
                          = SelectOf([node |-> "Blob",
                                      value |-> BlobBytes(input.body)])
       ELSE /\ ~Returned
            /\ Ended => SyntaxError
            /\ statements = <<>>

\* A blob of two bytes written with x and digits of both cases was parsed
\* as the column of a SELECT.
C16_TwoBytesOfMixedCase ==
    /\ input.kind = "blob"
    /\ input.position = "operand"
    /\ input.x = "x"
    /\ input.body = <<"4", "a", "a", "F">>
    /\ Returned
    /\ statements[1].columns[1] = [node |-> "Blob", value |-> <<74, 175>>]

\* ----------------------------------------------------------------- C17
\* The type of the token and the class of the node of a literal
LiteralType(open) == IF open = "'" THEN "STRING" ELSE "IDENTIFIER"
LiteralNode(open) == IF open = "'" THEN "String" ELSE "Identifier"

\* The pieces in front of the first doubled delimiter
RECURSIVE BeforeDoubled(_)
BeforeDoubled(pieces) ==
    IF pieces = <<>> \/ Head(pieces) = "dd" THEN <<>>
    ELSE <<Head(pieces)>> \o BeforeDoubled(Tail(pieces))

\* The literal is closed by a delimiter of the source: the one written
\* after the pieces or, in a literal opened by `[`, the first `]` of a
\* doubled one
Terminated(in) ==
    in.closed \/ (in.open = "[" /\ BeforeDoubled(in.pieces) # in.pieces)

\* The closing delimiter is the last character of the source
Whole(in) ==
    in.closed /\ (in.open = "[" => BeforeDoubled(in.pieces) = in.pieces)

\* The value of the literal: a doubled delimiter stands for one, and `]`
\* is never doubled
LiteralValue(in) ==
    IF in.open = "[" THEN BeforeDoubled(in.pieces)
    ELSE PiecesValue(in.open, in.pieces)

\* C17: in a literal opened by `'`, `"` or a backtick each doubled
\* delimiter gives exactly one delimiter character of the token value and
\* the first delimiter that is not doubled closes the literal; every other
\* character, the backslash too, is copied as it is. A literal opened by
\* `[` is closed by the first `]`: there is no doubling.
C17_DelimitedLiteralScanned ==
    (input.kind = "delimited" /\ Terminated(input))
    => /\ input.position = "first"
              => /\ lexer.current_token.type = LiteralType(input.open)
                 /\ lexer.current_token.value = LiteralValue(input)
       /\ Whole(input)
              => /\ pc # "raised"
                 /\ input.position = "first" => done(lexer)
                 /\ (input.position = "operand" /\ Returned)
                        => statements
                               = SelectOf([node |-> LiteralNode(input.open),
                                           value |-> LiteralValue(input)])

\* An identifier in double quotes with a backslash, a doubled double quote
\* and a single quote was parsed as the column of a SELECT.
C17_BackslashDoubledAndForeignQuote ==
    /\ input.kind = "delimited"
    /\ input.position = "operand"
    /\ input.open = "\""
    /\ input.pieces = <<"\\", "dd", "'">>
    /\ Returned
    /\ statements[1].columns[1]
           = [node |-> "Identifier", value |-> <<"\\", "\"", "'">>]

\* ----------------------------------------------------------------- C18
\* C18: a literal opened by `'`, `"`, a backtick or `[` that reaches the
\* end of input without its closing delimiter fails with a syntax error,
\* also when the text ends in a doubled delimiter as in `'abc''`: no token
\* is made of it and parse returns nothing.
C18_UnterminatedLiteralRefused ==
    (input.kind = "delimited" /\ ~Terminated(input))
    => /\ ~Returned
       /\ Ended => SyntaxError
       /\ statements = <<>>
       /\ IF input.position = "first"
          THEN pc = "raised" /\ lexer.current_token = None
          ELSE lexer.current_token.type = "KEYWORD"

\* A string literal whose last characters are a doubled quote was refused
\* where the column of a SELECT was expected.
C18_EndsInDoubledDelimiter ==
    /\ input.kind = "delimited"
    /\ input.position = "operand"
    /\ input.open = "'"
    /\ ~input.closed
    /\ Len(input.pieces) = MaxPieces
    /\ input.pieces[MaxPieces] = "dd"
    /\ SyntaxError
    /\ lexer.exc.msg = "expected delimiter"

\* ===================================================== CREATE statements
\* `CREATE [TEMP | TEMPORARY] <type> [IF NOT EXISTS] [main.]<name> <body>`
\* for the five types match_create_statement tells apart; a body is given
\* as its first token and the rest of its text.
CreateTypes == {<<"T","A","B","L","E">>, <<"I","N","D","E","X">>, <<"T","R","I","G","G","E","R">>, <<"V","I","E","W">>, <<"V","I","R","T","U","A","L"," ","T","A","B","L","E">>}
Unimplemented == {<<"T","R","I","G","G","E","R">>, <<"V","I","E","W">>, <<"V","I","R","T","U","A","L"," ","T","A","B","L","E">>}

Temporaries(type) ==
    IF type \in {<<"T","A","B","L","E">>, <<"T","R","I","G","G","E","R">>, <<"V","I","E","W">>}
    THEN {<<>>, <<"T","E","M","P">>, <<"T","E","M","P","O","R","A","R","Y">>} ELSE {<<>>}

Bodies(type) ==
    CASE type = <<"T","A","B","L","E">> ->
             {[first |-> <<"(">>, rest |-> <<"a",")">>], [first |-> <<"(">>, rest |-> <<"a",")",";">>]}
      [] type = <<"I","N","D","E","X">> ->
             {[first |-> <<"O","N">>, rest |-> <<" ","t","(","a",")",";">>],
              [first |-> <<"O","N">>, rest |-> <<" ","t","(","a",")"," ","W","H","E","R","E"," ","a"," ",">"," ","1">>]}
      [] type = <<"T","R","I","G","G","E","R">> ->
             {[first |-> <<"A","F","T","E","R">>, rest |-> <<" ","I","N","S","E","R","T"," ","O","N"," ","t"," ","B","E","G","I","N"," ","D","E","L","E","T","E"," ","F","R","O","M"," ","u",";"," ","E","N","D">>],
              [first |-> <<"I","N","S","T","E","A","D">>, rest |-> <<" ","O","F"," ","U","P","D","A","T","E"," ","O","N"," ","t"," ","B","E","G","I","N"," ","S","E","L","E","C","T"," ","1",";"," ","E","N","D",";">>],
              [first |-> <<"D","E","L","E","T","E">>, rest |-> <<" ","O","N"," ","t"," ","B","E","G","I","N"," ","S","E","L","E","C","T"," ","1",";"," ","E","N","D">>]}
      [] type = <<"V","I","E","W">> ->
             {[first |-> <<"A","S">>, rest |-> <<" ","S","E","L","E","C","T"," ","1">>],
              [first |-> <<"A","S">>, rest |-> <<" ","S","E","L","E","C","T"," ","a"," ","F","R","O","M"," ","t",";">>],
              [first |-> <<"(">>, rest |-> <<"a",","," ","b",")"," ","A","S"," ","S","E","L","E","C","T"," ","a",","," ","b"," ","F","R","O","M"," ","t">>]}
      [] type = <<"V","I","R","T","U","A","L"," ","T","A","B","L","E">> ->
             {[first |-> <<"U","S","I","N","G">>, rest |-> <<" ","f","t","s","5","(","a",","," ","b",")">>],
              [first |-> <<"U","S","I","N","G">>, rest |-> <<" ","f","t","s","5">>],
              [first |-> <<"U","S","I","N","G">>, rest |-> <<" ","r","t","r","e","e","(","i","d",")",";">>]}

CreateNames == {<<"v">>, <<"\"","m","y"," ","v","\"">>}
Schemas == {<<>>, <<"m","a","i","n",".">>}

CreateOf(type) ==
    {[kind |-> "create", temporary |-> temporary, type |-> type,
      if_not_exists |-> if_not_exists, schema |-> schema, name |-> name,
      body |-> body] :
        temporary \in Temporaries(type), if_not_exists \in BOOLEAN,
        schema \in Schemas, name \in CreateNames, body \in Bodies(type)}

CreateInputs == UNION {CreateOf(type) : type \in CreateTypes}

\* The source up to and with the first token of the body
CreateHead(in) ==
    Words(<<<<"C","R","E","A","T","E">>, in.temporary, in.type,
            IF in.if_not_exists THEN <<"I","F"," ","N","O","T"," ","E","X","I","S","T","S">> ELSE <<>>,
            in.schema \o in.name, in.body.first>>)

CreateText(in) == CreateHead(in) \o in.body.rest

InitCreate == \E in \in CreateInputs : Start(in, CreateText(in))

SpecCreate == InitCreate /\ [][NextExpr]_vars

Orders == {<<>>, <<"A","S","C">>, <<"D","E","S","C">>}
Strategies == {"ROLLBACK", "ABORT", "FAIL", "IGNORE", "REPLACE"}
\* A strategy as written; the names of OnConflict are the keywords
StrategyText(strategy) ==
    CASE strategy = "ROLLBACK" -> <<"R","O","L","L","B","A","C","K">>
      [] strategy = "ABORT" -> <<"A","B","O","R","T">>
      [] strategy = "FAIL" -> <<"F","A","I","L">>
      [] strategy = "IGNORE" -> <<"I","G","N","O","R","E">>
      [] strategy = "REPLACE" -> <<"R","E","P","L","A","C","E">>
Followers == {<<>>, <<"N","O","T"," ","N","U","L","L">>, <<"D","E","F","A","U","L","T"," ","5">>}

PrimaryKeyInputs ==
    {[kind |-> "primary key", api |-> api, order |-> order,
      strategy |-> strategy, autoincrement |-> autoincrement,
      follower |-> follower] :
        api \in Apis, order \in Orders, strategy \in Strategies \cup {"none"},
        autoincrement \in BOOLEAN, follower \in Followers}

PrimaryKeyText(in) ==
    ApiText(in.api,
        Words(<<<<"a"," ","I","N","T","E","G","E","R"," ","P","R","I","M","A","R","Y"," ","K","E","Y">>, in.order,
                IF in.strategy = "none" THEN <<>>
                ELSE <<"O","N"," ","C","O","N","F","L","I","C","T"," ">> \o StrategyText(in.strategy),
                IF in.autoincrement THEN <<"A","U","T","O","I","N","C","R","E","M","E","N","T">> ELSE <<>>,
                in.follower>>))

InitPrimaryKey == \E in \in PrimaryKeyInputs : Start(in, PrimaryKeyText(in))

SpecPrimaryKey == InitPrimaryKey /\ [][NextApi]_vars

\* ----------------------------------------------------------------- C20
\* The PrimaryKeyConstraint of what was written
WrittenPrimaryKey(in) ==
    [node |-> "PrimaryKeyConstraint",
     ascending |-> IF in.order = <<>> THEN None ELSE PyBool(in.order = <<"A","S","C">>),
     on_conflict |-> IF in.strategy = "none" THEN None
                     ELSE Enum("OnConflict", in.strategy),
     autoincrement |-> in.autoincrement]

\* C20: for every combination of an optional ASC or DESC, then an optional
\* ON CONFLICT <strategy>, then an optional AUTOINCREMENT, the column-level
\* PRIMARY KEY is parsed to a PrimaryKeyConstraint whose ascending
\* (True, False or None), on_conflict (the strategy or None) and
\* autoincrement are what was written, and the first token after the
\* constraint is left to the caller: the clause or the end that follows is
\* parsed as it is on its own.
C20_PrimaryKeyPartsParsed ==
    (input.kind = "primary key" /\ Ended)
    => /\ Returned
       /\ input.api = "parse"
              => Len(statements) = 1 /\ Len(statements[1].columns) = 1
       /\ ReturnedColumn.definition.type = PyStr(<<"I","N","T","E","G","E","R">>)
       /\ ReturnedColumn.definition.constraints
              = IF input.follower = <<"N","O","T"," ","N","U","L","L">>
                THEN <<WrittenPrimaryKey(input),
                       [node |-> "NotNullConstraint", on_conflict |-> None]>>
                ELSE <<WrittenPrimaryKey(input)>>
       /\ ReturnedColumn.definition.default
              = IF input.follower = <<"D","E","F","A","U","L","T"," ","5">>
                THEN [node |-> "Integer", value |-> 5]
                ELSE None

\* PRIMARY KEY DESC ON CONFLICT REPLACE AUTOINCREMENT NOT NULL was parsed
\* in a table: all three parts are in the constraint and NOT NULL follows.
C20_AllPartsThenNotNull ==
    /\ input.kind = "primary key"
    /\ input.api = "parse"
    /\ input.order = <<"D","E","S","C">>
    /\ input.strategy = "REPLACE"
    /\ input.autoincrement
    /\ input.follower = <<"N","O","T"," ","N","U","L","L">>
    /\ Returned
    /\ ReturnedColumn.definition.constraints[1].autoincrement
    /\ ReturnedColumn.definition.constraints[1].ascending = PyBool(FALSE)
    /\ ReturnedColumn.definition.constraints[2].node = "NotNullConstraint"

\* ====================================================== DEFAULT clauses
\* A column `a` with one DEFAULT clause, then nothing or NOT NULL.  Each
\* form is the text written after DEFAULT, the kind of value it is and
\* the node that value stands for.
Form(text, kind, value) == [text |-> text, kind |-> kind, value |-> value]

DefaultForms ==
    { Form(<<"(","5",")">>, "expression", [node |-> "Integer", value |-> 5]),
      Form(<<"("," ","a"," ",")">>, "expression", [node |-> "Identifier", value |-> <<"a">>]),
      Form(<<"(","1"," ","+"," ","2",")">>, "expression",
           InfixNode(<<"+">>, [node |-> "Integer", value |-> 1],
                     [node |-> "Integer", value |-> 2])),
      Form(<<"'","x","'">>, "string", [node |-> "String", value |-> <<"x">>]),
      Form(<<"'","'">>, "string", [node |-> "String", value |-> <<>>]),
      Form(<<"x","'","4","a","'">>, "blob", [node |-> "Blob", value |-> <<74>>]),
      Form(<<"X","'","'">>, "blob", [node |-> "Blob", value |-> <<>>]),
      Form(<<"5">>, "integer", [node |-> "Integer", value |-> 5]),
      Form(<<"1","0">>, "integer", [node |-> "Integer", value |-> 10]),
      Form(<<"T","R","U","E">>, "boolean", [node |-> "Boolean", value |-> TRUE]),
      Form(<<"t","r","u","e">>, "boolean", [node |-> "Boolean", value |-> TRUE]),
      Form(<<"t","R","u","E">>, "boolean", [node |-> "Boolean", value |-> TRUE]),
      Form(<<"F","A","L","S","E">>, "boolean", [node |-> "Boolean", value |-> FALSE]),
      Form(<<"F","a","l","s","e">>, "boolean", [node |-> "Boolean", value |-> FALSE]),
      Form(<<"N","U","L","L">>, "null", [node |-> "Null"]),
      Form(<<"n","u","l","l">>, "null", [node |-> "Null"]),
      Form(<<"C","U","R","R","E","N","T","_","T","I","M","E">>, "current", Enum("DefaultValue", "CURRENT_TIME")),
      Form(<<"C","U","R","R","E","N","T","_","D","A","T","E">>, "current", Enum("DefaultValue", "CURRENT_DATE")),
      Form(<<"c","u","r","r","e","n","t","_","d","a","t","e">>, "current", Enum("DefaultValue", "CURRENT_DATE")),
      Form(<<"C","U","R","R","E","N","T","_","T","I","M","E","S","T","A","M","P">>, "current",
           Enum("DefaultValue", "CURRENT_TIMESTAMP")),
      Form(<<"f","o","o">>, "other", None),
      Form(<<"t","r","u","t","h">>, "other", None),
      Form(<<"T">>, "other", None) }

DefaultFollowers == {<<>>, <<"N","O","T"," ","N","U","L","L">>}

DefaultInputs ==
    {[kind |-> "default", api |-> api, form |-> form, follower |-> follower] :
        api \in Apis, form \in DefaultForms, follower \in DefaultFollowers}

DefaultText(in) ==
    ApiText(in.api, Words(<<<<"a">>, <<"D","E","F","A","U","L","T">>, in.form.text, in.follower>>))

InitDefault == \E in \in DefaultInputs : Start(in, DefaultText(in))

SpecDefault == InitDefault /\ [][NextApi]_vars

\* ----------------------------------------------------------------- C21
\* C21: the DEFAULT clause accepts a parenthesized expression, a string
\* literal (String), a blob literal (Blob), an integer literal (Integer),
\* TRUE / FALSE in any letter case (Boolean), NULL (Null) and
\* CURRENT_TIME / CURRENT_DATE / CURRENT_TIMESTAMP (the DefaultValue
\* member) and returns the matching node; any other identifier after
\* DEFAULT is a syntax error.
C21_DefaultFormsAccepted ==
    input.kind = "default"
    => IF input.form.kind = "other"
       THEN ~Returned /\ (Ended => SyntaxError)
       ELSE /\ pc # "raised"
            /\ Returned => ReturnedColumn.definition.default = input.form.value

\* ================================================== MATCH of foreign keys
\* A foreign key clause with one MATCH, written after nothing or an ON
\* clause and before nothing or a DEFERRABLE clause.
MatchModes == {<<"S","I","M","P","L","E">>, <<"F","U","L","L">>, <<"P","A","R","T","I","A","L">>}
MatchWords ==
    MatchModes \cup {<<"s","i","m","p","l","e">>, <<"f","u","l","l">>, <<"P","a","r","t","i","a","l">>, <<"f","o","o">>, <<"A","L","L">>, <<"D","E","F","E","R","R","A","B","L","E">>}
MatchBefores == {<<>>, <<"O","N"," ","D","E","L","E","T","E"," ","C","A","S","C","A","D","E">>}
MatchAfters == {<<>>, <<"D","E","F","E","R","R","A","B","L","E">>, <<"N","O","T"," ","D","E","F","E","R","R","A","B","L","E">>}

MatchInputs ==
    {[kind |-> "match", api |-> api, word |-> word, before |-> before,
      after |-> after] :
        api \in Apis, word \in MatchWords, before \in MatchBefores,
        after \in MatchAfters}

MatchText(in) ==
    LET clause == Words(<<<<"R","E","F","E","R","E","N","C","E","S"," ","u","(","b",")">>, in.before, <<"M","A","T","C","H">>, in.word,
                          in.after>>)
    IN  IF in.api = "parse_column" THEN <<"a"," ">> \o clause
        ELSE <<"C","R","E","A","T","E"," ","T","A","B","L","E"," ","t","(","a",","," ","F","O","R","E","I","G","N"," ","K","E","Y"," ","(","a",")"," ">> \o clause \o <<")">>

InitMatch == \E in \in MatchInputs : Start(in, MatchText(in))

SpecMatch == InitMatch /\ [][NextApi]_vars

\* ----------------------------------------------------------------- C22
\* C22: in a foreign key clause MATCH SIMPLE, MATCH FULL and MATCH PARTIAL
\* are each accepted and set the match field of the constraint to
\* ForeignKeyMatch.SIMPLE, FULL and PARTIAL; any other word after MATCH is
\* a syntax error.
C22_MatchModesAccepted ==
    input.kind = "match"
    => IF upper(input.word) \in MatchModes
       THEN /\ pc # "raised"
            /\ Returned
                   => ReturnedConstraint.match
                          = Enum("ForeignKeyMatch", Str(upper(input.word)))
       ELSE ~Returned /\ (Ended => SyntaxError)

\* ========================================================= sources cut off
\* Every source that is the first `cut` characters of a complete one: the
\* end of the input then falls at each place of each loop of the parser
\* (type arguments, identifier lists, column constraints, foreign key
\* clauses, expression lists, the verbatim scan).
Source(api, verbatim, text) == [api |-> api, verbatim |-> verbatim, text |-> text]

CompleteSources ==
    { Source("parse_column", FALSE, <<"a"," ","V","A","R","C","H","A","R","(","1","0",","," ","2",")"," ","N","O","T"," ","N","U","L","L">>),
      Source("parse_column", FALSE, <<"a"," ","I","N","T"," ","R","E","F","E","R","E","N","C","E","S"," ","u","(","b",","," ","c",")"," ","O","N"," ","D","E","L","E","T","E"," ","S","E","T"," ","N","U","L","L">>),
      Source("parse_column", FALSE, <<"a"," ","C","H","E","C","K"," ","(","f","(","b",","," ","1",")",")"," ","D","E","F","A","U","L","T"," ","(","1",")">>),
      Source("parse", FALSE, <<"C","R","E","A","T","E"," ","T","A","B","L","E"," ","t","(","a"," ","N","U","M","E","R","I","C","(","5",","," ","2",")",","," ","b",","," ","P","R","I","M","A","R","Y"," ","K","E","Y"," ","(","a",","," ","b",")",")",";">>),
      Source("parse", FALSE, <<"C","R","E","A","T","E"," ","T","A","B","L","E"," ","t","(","a",","," ","F","O","R","E","I","G","N"," ","K","E","Y"," ","(","a",")"," ","R","E","F","E","R","E","N","C","E","S"," ","u","(","b",")"," ","M","A","T","C","H"," ","F","U","L","L",")",";">>),
      Source("parse", FALSE, <<"S","E","L","E","C","T"," ","a",","," ","f","(","b",","," ","(","c",")",")",";">>),
      Source("parse", FALSE, <<"C","R","E","A","T","E"," ","I","N","D","E","X"," ","i"," ","O","N"," ","t","(","a",","," ","b",")"," ","W","H","E","R","E"," ","(","a"," ",">"," ","1",")",";">>),
      Source("parse", TRUE, <<"C","R","E","A","T","E"," ","I","N","D","E","X"," ","i"," ","O","N"," ","t","(","a",","," ","b",")"," ","W","H","E","R","E"," ","(","a"," ",">"," ","1",")",";">>),
      Source("parse", TRUE, <<"C","R","E","A","T","E"," ","T","A","B","L","E"," ","t","(","a"," ","D","E","F","A","U","L","T"," ","(","f","(","1",")",")",","," ","C","H","E","C","K"," ","(","a",")",")",";">>) }

CutsOf(source) ==
    {[kind |-> "cut", api |-> source.api, verbatim |-> source.verbatim,
      source |-> source.text, cut |-> cut] : cut \in 0..Len(source.text)}

CutInputs == UNION {CutsOf(source) : source \in CompleteSources}

CutText(in) == SubSeq(in.source, 1, in.cut)

InitCut ==
    \E in \in CutInputs :
        IF in.verbatim THEN StartVerbatim(in, CutText(in))
        ELSE Start(in, CutText(in))

NextCut == NextApi \/ LoopTurn

SpecCut == InitCut /\ [][NextCut]_vars

\* ----------------------------------------------------------------- C23
\* C23: for every finite source parse and parse_column finish, returning a
\* result or raising an error: no call is ever in a loop that neither
\* makes progress nor exits once the lexer is at the end of the input.
C23_EveryLoopEnds == pc \in {"parsing", "returned", "raised"}

\* ====================================================== one operator
\* `SELECT a op b`: two identifiers about one binary operator, written
\* with blanks about the operator or, for an operator that is no word,
\* without; then nothing or `;`.
IsWord(op) == isalpha(op[1])

PairsOf(op) ==
    {[kind |-> "pair", a |-> Name(a), op |-> op, b |-> Name(b),
      blank |-> blank, end |-> end] :
        a \in {<<"a">>, <<"x">>}, b \in {<<"b">>, <<"y">>},
        blank \in IF IsWord(op) THEN {<<" ">>} ELSE {<<" ">>, <<>>},
        end \in {<<>>, <<";">>}}

PairInputs == UNION {PairsOf(op) : op \in Operators}

PairText(in) ==
    <<"S","E","L","E","C","T"," ">> \o in.a.value \o in.blank \o in.op \o in.blank \o in.b.value
        \o in.end

InitPair == \E in \in PairInputs : Start(in, PairText(in))

SpecPair == InitPair /\ [][NextExpr]_vars

\* ----------------------------------------------------------------- C24
\* C24: every operator of the precedence table is accepted as an infix
\* operator: for each op of it `SELECT a op b` parses to
\* Infix(op, Identifier(a), Identifier(b)), the operator kept as one.
C24_EveryOperatorAccepted ==
    input.kind = "pair"
    => /\ pc # "raised"
       /\ Returned => statements = SelectOf(InfixNode(input.op, input.a, input.b))

\* ================================================== identifiers, and back
\* An identifier of value `value`, written between double quotes,
\* backticks or brackets (a delimiter inside the value doubled; brackets
\* only for a value without `]`), as the name of a column given to
\* parse_column or as the column of a SELECT given to parse.  What comes
\* back is rendered, and the rendering is scanned.
MaxChars == 3

NameChars == {"a", "\"", Backtick, "]"}
NameValues == SeqsUpTo(NameChars, MaxChars)

OpenersOf(value) ==
    {"\"", Backtick} \cup (IF "]" \in Range(value) THEN {} ELSE {"["})

\* The text that is scanned as the identifier value
Written(open, value) ==
    IF open = "[" THEN <<"[">> \o value \o <<"]">>
    ELSE <<open>> \o replace(value, open, <<open, open>>) \o <<open>>

NamesOf(value) ==
    {[kind |-> "name", api |-> api, value |-> value, open |-> open] :
        api \in Apis, open \in OpenersOf(value)}

NameInputs == UNION {NamesOf(value) : value \in NameValues}

NameText(in) ==
    IF in.api = "parse_column" THEN Written(in.open, in.value)
    ELSE <<"S","E","L","E","C","T"," ">> \o Written(in.open, in.value)

InitName == \E in \in NameInputs : Start(in, NameText(in))

\* The node that carries the identifier: the Column parse_column returned,
\* or the Identifier that is the column of the SELECT
NameNode == IF input.api = "parse_column" THEN column ELSE statements[1].columns[1]

\* str(node) of that node
RenderName ==
    /\ pc = "returned"
    /\ pass = 1
    /\ rendered' = <<Node_str(NameNode)>>
    /\ pc' = "rendered"
    /\ UNCHANGED <<input, lexer, statements, column, first, pass, call>>

\* Lexer(text) of the rendering: its first token is scanned
Rescan ==
    /\ pc = "rendered"
    /\ pass = 1
    /\ rendered[1].exc = None
    /\ lexer' = Lexer(rendered[1].val)
    /\ first' = rendered[1].val
    /\ pass' = 2
    /\ pc' = After(lexer', "scanned")
    /\ UNCHANGED <<input, statements, column, rendered, call>>

NextName == NextApi \/ RenderName \/ Rescan

SpecName == InitName /\ [][NextName]_vars

\* ----------------------------------------------------------------- C25
\* The identifier value the first pass scanned
ScannedValue == IF input.api = "parse_column" THEN column.name ELSE NameNode.value

\* C25: rendering an identifier is the inverse of scanning it: for every
\* value x the scanner can produce (values that contain, start with or
\* end with a double quote included), scanning the text quote(x) that the
\* rendering of Identifier / Column emits yields exactly one Identifier
\* token whose value is x.
C25_RenderedIdentifierScansBack ==
    (input.kind = "name" /\ pass = 2)
    => /\ ScannedValue = input.value
       /\ first = quote(input.value)
       /\ pc = "scanned"
       /\ lexer.current_token.type = "IDENTIFIER"
       /\ lexer.current_token.value = input.value
       /\ done(lexer)

\* ==================================================== the Lexer by itself
\* A run that makes a Lexer of a source of at most MaxTokens tokens and
\* then calls advance and push on it, as the parser does, at most MaxCalls
\* times; it ends with the first exception.
MaxTokens == 2
MaxCalls == 3

\* A token as it is written, and the type and value it is to be scanned as
Word(text, type, value) == [text |-> text, type |-> type, value |-> value]

TokenPool ==
    { Word(<<"a">>, "IDENTIFIER", <<"a">>), Word(<<"1","2">>, "INTEGER", <<"1","2">>),
      Word(<<";">>, "SEMICOLON", <<";">>), Word(<<"s","e","l","e","c","t">>, "KEYWORD", <<"S","E","L","E","C","T">>) }

TokenInputs ==
    {[kind |-> "tokens", words |-> words, trailer |-> trailer] :
        words \in SeqsUpTo(TokenPool, MaxTokens), trailer \in {<<>>, <<" ">>}}

TokensText(in) ==
    Join(<<" ">>, [i \in DOMAIN in.words |-> in.words[i].text]) \o in.trailer

\* The `expecting` arguments of the calls of advance
ExpectingPool == {None, Expecting(<<TT("IDENTIFIER"), KW("SELECT")>>)}

\* The tokens pushed: the current one, as match_create_table_statement
\* does, or one the caller made
PushPool(L) == {current(L), Token("IDENTIFIER", <<"p">>, 1, 1, None)}

\* The record of a call: the calls so far, the argument of the last one,
\* the lexer it was made on and the token it returned (None: none)
Called(log, arg, was, returned) ==
    [log |-> log, arg |-> arg, was |-> was, returned |-> returned]

InitLexer ==
    \E in \in TokenInputs :
        /\ input = in
        /\ lexer = Lexer(TokensText(in))
        /\ statements = <<>>
        /\ column = None
        /\ rendered = <<>>
        /\ first = <<>>
        /\ pass = 1
        /\ call = Called(<<>>, None, None, None)
        /\ pc = After(lexer, "scanning")

\* lexer.advance(expecting): the token returned is the current_token the
\* call leaves
Advance ==
    /\ pc = "scanning"
    /\ Len(call.log) < MaxCalls
    /\ \E expecting \in ExpectingPool :
           /\ lexer' = advance(lexer, expecting)
           /\ call' = Called(Append(call.log, "advance"), expecting, lexer,
                             IF Failed(lexer') THEN None
                             ELSE lexer'.current_token)
    /\ pc' = After(lexer', "scanning")
    /\ UNCHANGED <<input, statements, column, rendered, first, pass>>

\* lexer.push(token)
Push ==
    /\ pc = "scanning"
    /\ Len(call.log) < MaxCalls
    /\ \E token \in PushPool(lexer) :
           /\ lexer' = push(lexer, token)
           /\ call' = Called(Append(call.log, "push"), token, lexer, None)
    /\ pc' = After(lexer', "scanning")
    /\ UNCHANGED <<input, statements, column, rendered, first, pass>>

NextLexer == Advance \/ Push

SpecLexer == InitLexer /\ [][NextLexer]_vars

\* The last call of the run was op, and it returned
Last(op) ==
    /\ input.kind = "tokens"
    /\ call.log # <<>>
    /\ call.log[Len(call.log)] = op

\* Every call of the run so far was advance
OnlyAdvances == \A i \in DOMAIN call.log : call.log[i] = "advance"

\* token is token k of the source: word k as it is to be scanned, the EOF
\* token after the last word
TokenIs(token, k) ==
    /\ token # None
    /\ IF k <= Len(input.words)
       THEN /\ token.type = input.words[k].type
            /\ token.value = input.words[k].value
       ELSE token.type = "EOF"

\* ----------------------------------------------------------------- C26
\* C26 as claimed: advance consumes and returns the token that current()
\* returned immediately before the call, and after the call current()
\* returns the following token of the source; on a fresh scanner over
\* tokens t1 t2 ... the k-th advance() returns tk and leaves
\* current() == t(k+1), the EndOfInput sentinel after the last token.
C26_AdvanceReturnsTheTokenBefore ==
    (Last("advance") /\ pc = "scanning")
    => /\ call.returned = current(call.was)
       /\ OnlyAdvances
              => /\ TokenIs(call.returned, Len(call.log))
                 /\ TokenIs(current(lexer), Len(call.log) + 1)

\* C26 as amended: advance scans the next token of the source, makes it
\* the current token and returns it, so that after the call current() is
\* the token returned; on a fresh scanner over tokens t1 t2 ... tn,
\* current() is t1, the k-th advance() returns t(k+1) and leaves
\* current() == t(k+1), the EndOfInput sentinel from the n-th call on.
C26_AdvanceReturnsTheNextToken ==
    /\ (input.kind = "tokens" /\ call.log = <<>>) => TokenIs(current(lexer), 1)
    /\ (Last("advance") /\ pc = "scanning")
       => /\ call.returned = current(lexer)
          /\ OnlyAdvances => TokenIs(call.returned, Len(call.log) + 1)

\* The second advance on a source of two tokens returned the EOF token,
\* the second token being current before it.
C26_SecondAdvanceReachesTheEnd ==
    /\ Last("advance")
    /\ pc = "scanning"
    /\ call.log = <<"advance", "advance">>
    /\ Len(input.words) = 2
    /\ TokenIs(current(call.was), 2)
    /\ call.returned.type = "EOF"
    /\ current(lexer) = call.returned

\* ----------------------------------------------------------------- C27
\* C27: whenever advance is called with an `expecting` list, the token it
\* returns matches at least one matcher of the list, or the call fails
\* with a syntax error; in every lexer state, also when the token
\* returned comes from the pushback slot and when the input is exhausted.
C27_ReturnedTokenIsExpected ==
    (Last("advance") /\ call.arg # None)
    => IF pc = "raised" THEN lexer.exc.node = "SQLiteParserError"
       ELSE \E i \in DOMAIN call.arg.items :
                Matches(call.returned, call.arg.items[i])

\* ----------------------------------------------------------------- C28
\* C28: done() is true if and only if the cursor is at the end of the
\* input and no token is pushed back: in every reachable lexer state
\* done() is false while a pushed-back token is pending and false while
\* current() is a token other than EndOfInput that has not been consumed.
C28_DoneIffNothingIsLeft ==
    (input.kind = "tokens" /\ pc = "scanning")
    => (done(lexer) <=> /\ lexer.pushed_token = None
                        /\ current(lexer).type = "EOF")

\* ----------------------------------------------------------------- C29
\* C29: the pushback buffer holds at most one token: push(t) on an empty
\* slot makes the next current() and the next advance() return t, and
\* that advance empties the slot; push on an occupied slot fails with an
\* error and leaves the token already pushed, the current token and the
\* cursor position as they were.
C29_PushbackHoldsOneToken ==
    /\ (Last("push") /\ call.was.pushed_token = None)
       => /\ pc = "scanning"
          /\ current(lexer) = call.arg
          /\ lexer = [call.was EXCEPT !.pushed_token = call.arg]
    /\ (Last("advance") /\ call.was.pushed_token # None)
       => /\ pc = "scanning"
          /\ call.returned = call.was.pushed_token
          /\ lexer.pushed_token = None
          /\ lexer.index = call.was.index
    /\ (Last("push") /\ call.was.pushed_token # None)
       => /\ pc = "raised"
          /\ lexer.exc.node = "SQLiteParserError"
          /\ lexer = [call.was EXCEPT !.exc = lexer.exc]

\* A second token, not the one pending, was pushed and refused.
C29_SecondPushRefused ==
    /\ Last("push")
    /\ call.log = <<"advance", "push", "push">>
    /\ call.was.pushed_token # None
    /\ call.arg # call.was.pushed_token
    /\ pc = "raised"
    /\ lexer.pushed_token = call.was.pushed_token

\* ----------------------------------------------------------------- C30
\* C30: binary operators of equal precedence associate to the left: for
\* any operators op1, op2 of the same rank (op1 = op2 included) and any
\* operands, `a op1 b op2 c` parses to Infix(op2, Infix(op1, a, b), c),
\* never to Infix(op1, a, Infix(op2, b, c)).
C30_EqualRankAssociatesLeft ==
    (input.kind = "chain" /\ Rank(input.op1) = Rank(input.op2) /\ Ended)
    => /\ pc = "returned"
       /\ statements = SelectOf(InfixNode(input.op2,
                                    InfixNode(input.op1, input.a, input.b),
                                    input.c))
=============================================================================
